---- MODULE Spec2Model ----
(***************************************************************************)
(* Model of the qing-crop post-OCR engine: character segmentation          *)
(* (CharSegmentation), the classical classifiers (KNN, DecisionTree) and   *)
(* the orchestrating EnhancedOCREngine.                                    *)
(*                                                                         *)
(* Arrays keep the source's 0-based indexing through At/SetAt.  Pure       *)
(* static functions are operators that follow the source's loops; each is  *)
(* exercised by a specification whose Init draws the argument from a       *)
(* bounded set and whose action applies the function.                      *)
(***************************************************************************)
EXTENDS Integers, Sequences, FiniteSets, TLC

VARIABLES
  pc,    \* position of the driver of a static function: "ready" or "done"
  arg,   \* the argument the function is called with
  ret    \* the value it returned

\* EnhancedOCREngine (the singleton of getEnhancedOCREngine) and its callers
VARIABLES
  options,       \* this.options
  kmeans,        \* this.kmeans
  knn,           \* this.knn
  decisionTree,  \* this.decisionTree
  trainingData,  \* this.trainingData, as the JSON value it is
  run,           \* the recognize call in flight and its locals
  lastCall       \* what the caller of the last completed call observed

engineVars == <<options, kmeans, knn, decisionTree, trainingData, run, lastCall>>

vars == <<pc, arg, ret, options, kmeans, knn, decisionTree, trainingData, run, lastCall>>

None == "none"

(***************************************************************************)
(* JSON values.  A JavaScript value that JSON can carry is a tagged        *)
(* record; an object is the sequence of its members in insertion order.    *)
(* Numbers are kept in thousandths (see the feature extractor).            *)
(***************************************************************************)
Undefined == [t |-> "undefined"]

JNull == [t |-> "null"]

JNum(n) == [t |-> "number", v |-> n]

JStr(s) == [t |-> "string", v |-> s]

JArr(items) == [t |-> "array", v |-> items]

JObj(members) == [t |-> "object", v |-> members]

Member(k, val) == [k |-> k, val |-> val]

(***************************************************************************)
(* Construction of the engine                                              *)
(***************************************************************************)
DEFAULT_OPTIONS ==
  [useSegmentation |-> TRUE, useKMeans |-> TRUE, useKNN |-> TRUE,
   useDecisionTree |-> TRUE, kMeansClusters |-> 10, knnNeighbors |-> 5]

\* { ...a, ...b }
Spread(a, b) ==
  [f \in (DOMAIN a) \cup (DOMAIN b) |-> IF f \in DOMAIN b THEN b[f] ELSE a[f]]

\* the empty Partial<OCROptions>
NoOptions == [f \in {} |-> TRUE]

\* new KMeans(k): no centroids yet
NewKMeans(k) == [k |-> k, fitted |-> FALSE]

\* new KNN(k).  fit stores the caller's array itself, not a copy: shared says
\* that KNN.trainingData is the array object this.trainingData currently is
NewKNN(k) == [k |-> k, trainingData |-> JArr(<<>>), shared |-> FALSE]

\* DecisionTree.tree is null until fit; predict returns null without a tree
NullTree == [type |-> "null"]

NewDecisionTree == [tree |-> NullTree]

Idle == [stage |-> "idle"]

NoCall == [op |-> None]

\* new EnhancedOCREngine(partial), before any call
Constructed(partial) ==
  /\ options = Spread(DEFAULT_OPTIONS, partial)
  /\ kmeans = NewKMeans(Spread(DEFAULT_OPTIONS, partial).kMeansClusters)
  /\ knn = NewKNN(Spread(DEFAULT_OPTIONS, partial).knnNeighbors)
  /\ decisionTree = NewDecisionTree
  /\ trainingData = JArr(<<>>)
  /\ run = Idle
  /\ lastCall = NoCall

EngineConstructed == Constructed(NoOptions)

(***************************************************************************)
(* 0-based array helpers                                                   *)
(***************************************************************************)
At(s, i) == s[i + 1]

SetAt(s, i, v) == [s EXCEPT ![i + 1] = v]

Fill(n, v) == [i \in 1..n |-> v]

RECURSIVE SumSeq(_)
SumSeq(s) == IF s = <<>> THEN 0 ELSE Head(s) + SumSeq(Tail(s))

Min2(a, b) == IF a < b THEN a ELSE b

Max2(a, b) == IF a > b THEN a ELSE b

MinOfSet(S) == CHOOSE m \in S : \A o \in S : m <= o

(***************************************************************************)
(* ImageData: width, height and the flat RGBA sample array.                *)
(***************************************************************************)
\* the flat RGBA array of a row-major sequence of <<r, g, b>> colours
RgbaData(colours) ==
  [k \in 1..(4 * Len(colours)) |->
     IF (k - 1) % 4 = 3 THEN 255 ELSE colours[((k - 1) \div 4) + 1][((k - 1) % 4) + 1]]

ImageData(width, height, colours) ==
  [width |-> width, height |-> height, data |-> RgbaData(colours)]

Gray(v) == <<v, v, v>>

\* every width x height with 1 <= width * height <= maxArea
Dims(maxArea) ==
  {d \in (1..maxArea) \X (1..maxArea) : d[1] * d[2] <= maxArea}

\* every image of at most maxArea pixels whose pixels are colours of palette
Images(palette, maxArea) ==
  UNION {{ImageData(d[1], d[2], [p \in 1..(d[1] * d[2]) |-> f[p]]) :
            f \in [1..(d[1] * d[2]) -> palette]} : d \in Dims(maxArea)}

PixelCount(imageData) == Len(imageData.data) \div 4

(***************************************************************************)
(* Luma 0.299 R + 0.587 G + 0.114 B.  It is kept exactly, in thousandths.  *)
(* The source evaluates it in IEEE doubles; the double result differs from *)
(* the exact one by less than 1e-12, which shows only where the exact luma *)
(* is an integer: for a gray pixel (R = G = B = v) the double sum is v or  *)
(* falls just below v.  LumaBelowGray lists the v where it falls below.    *)
(* Palettes hold grays and colours whose exact luma is no integer and no   *)
(* half, so that the comparisons and Math.round are those of the doubles.  *)
(***************************************************************************)
Luma1000(data, i) ==
  299 * At(data, i) + 587 * At(data, i + 1) + 114 * At(data, i + 2)

LumaBelowGray ==
  {1, 2, 4, 8, 11, 13, 16, 22, 26, 27, 32, 39, 44, 51, 52, 54, 57, 59, 61, 64,
   78, 81, 88, 91, 95, 101, 102, 104, 108, 114, 115, 118, 122, 127, 128, 143,
   149, 156, 157, 162, 169, 175, 176, 182, 183, 190, 195, 202, 203, 204, 208,
   209, 216, 223, 225, 228, 230, 235, 236, 239, 241, 244, 249, 251, 254}

IsGrayPixel(data, i) ==
  At(data, i) = At(data, i + 1) /\ At(data, i + 1) = At(data, i + 2)

grayLessOrEqual(data, i, threshold) ==
  Luma1000(data, i) <= 1000 * threshold

\* gray < threshold, gray the double 0.299*data[i] + 0.587*data[i+1] + 0.114*data[i+2]
grayLess(data, i, threshold) ==
  \/ Luma1000(data, i) < 1000 * threshold
  \/ /\ Luma1000(data, i) = 1000 * threshold
     /\ IsGrayPixel(data, i)
     /\ At(data, i) \in LumaBelowGray

\* Math.round of the luma (halves do not occur in the palettes)
roundedLuma(data, i) == (Luma1000(data, i) + 500) \div 1000

(***************************************************************************)
(* CharSegmentation.binarize                                               *)
(***************************************************************************)
DefaultThreshold == 128

binarize(imageData, threshold) ==
  [imageData EXCEPT !.data =
     [k \in 1..Len(imageData.data) |->
        IF (k - 1) % 4 = 3
          THEN 255
          ELSE IF grayLess(imageData.data, 4 * ((k - 1) \div 4), threshold)
                 THEN 0 ELSE 255]]

(***************************************************************************)
(* CharSegmentation.calculateProjection                                    *)
(***************************************************************************)
isInkInclusive(data, idx) == At(data, idx) <= 128

\* if (data[idx] < 128)
isInk(data, idx) == At(data, idx) < 128

\* the nested y/x loops, p = y * width + x running in their order
RECURSIVE projectionLoop(_, _, _)
projectionLoop(imageData, p, profile) ==
  IF p >= imageData.width * imageData.height
    THEN profile
    ELSE LET y == p \div imageData.width
             x == p % imageData.width
             idx == (y * imageData.width + x) * 4
         IN  projectionLoop(imageData, p + 1,
               IF isInk(imageData.data, idx)
                 THEN [horizontal |-> SetAt(profile.horizontal, y,
                                            At(profile.horizontal, y) + 1),
                       vertical |-> SetAt(profile.vertical, x,
                                          At(profile.vertical, x) + 1)]
                 ELSE profile)

calculateProjection(imageData) ==
  projectionLoop(imageData, 0,
                 [horizontal |-> Fill(imageData.height, 0),
                  vertical |-> Fill(imageData.width, 0)])

(***************************************************************************)
(* Driver: calculateProjection on bounded buffers                          *)
(***************************************************************************)
MaxProjArea == 6

ProjPalette == {Gray(0), Gray(128), Gray(255)}

InitProjection ==
  /\ pc = "ready"
  /\ arg \in Images(ProjPalette, MaxProjArea)
  /\ ret = None
  /\ EngineConstructed

CalculateProjectionCall ==
  /\ pc = "ready"
  /\ ret' = calculateProjection(arg)
  /\ pc' = "done"
  /\ UNCHANGED <<arg, engineVars>>

NextProjection == CalculateProjectionCall

SpecProjection == InitProjection /\ [][NextProjection]_vars

\* the pixels whose red sample is < 128
ForegroundPixels(imageData) ==
  {p \in 0..(PixelCount(imageData) - 1) : At(imageData.data, 4 * p) < 128}

\* C2: calculateProjection returns horizontal (length = height) and vertical
\* (length = width) histograms whose sums equal each other and the number of
\* foreground pixels (red sample < 128) of the buffer.
C2_ProjectionSums ==
  pc = "done" =>
     /\ Len(ret.horizontal) = arg.height
     /\ Len(ret.vertical) = arg.width
     /\ SumSeq(ret.horizontal) = SumSeq(ret.vertical)
     /\ SumSeq(ret.horizontal) = Cardinality(ForegroundPixels(arg))

C2_Witness ==
  /\ pc = "done"
  /\ arg.width = 3 /\ arg.height = 2
  /\ Cardinality(ForegroundPixels(arg)) = 3
  /\ ret.horizontal = <<1, 2>>
  /\ ret.vertical = <<2, 0, 1>>

(***************************************************************************)
(* CharSegmentation.otsuBinarize                                           *)
(***************************************************************************)
GrayLevels == 256

\* histogram[grayData[j]]++ over all pixels j
otsuHistogram(imageData) ==
  [g \in 0..(GrayLevels - 1) |->
     Cardinality({j \in 0..(PixelCount(imageData) - 1) :
                    roundedLuma(imageData.data, 4 * j) = g})]

\* sum of weight(i) * histogram[i] over the bins lo..hi (halving keeps the
\* evaluation shallow; the sum is that of the source's running additions)
RECURSIVE binSum(_, _, _, _)
binSum(histogram, lo, hi, weighted) ==
  IF lo > hi THEN 0
  ELSE IF lo = hi THEN (IF weighted THEN lo * histogram[lo] ELSE histogram[lo])
  ELSE LET mid == (lo + hi) \div 2
       IN  binSum(histogram, lo, mid, weighted) + binSum(histogram, mid + 1, hi, weighted)

\* a * b > c * d for naturals, without forming the products: the fractions
\* a/c and d/b are compared by their whole parts and then, the other way
\* round, by the reciprocals of their remainders
RECURSIVE productGreater(_, _, _, _)
productGreater(a, b, c, d) ==
  IF a = 0 \/ b = 0 THEN FALSE
  ELSE IF c = 0 \/ d = 0 THEN TRUE
  ELSE IF a \div c # d \div b THEN a \div c > d \div b
  ELSE IF a % c = 0 THEN FALSE
  ELSE IF d % b = 0 THEN TRUE
  ELSE productGreater(b, a % c, d % b, c)

\* if (variance > maxVariance): the variance w0*w1*(mean0-mean1)^2/total^2 is
\* compared exactly, as the fraction of diff^2 over den, diff the size of
\* sum0*w1 - sum1*w0 and den = w0*w1 (total is the same for every t)
otsuUpdate(diff, den, best) ==
  productGreater(diff * best.maxDen, diff, best.maxDiff * den, best.maxDiff)

\* one pass of the loop body for threshold t.  best carries maxVariance (as
\* maxDiff^2/maxDen) and optimalThreshold; w0 and sum0, the sums over bins
\* 0..t that the source re-adds for every t, are carried in below and
\* belowSum, w1 and sum1 are the rest of the population.
otsuStep(histogram, total, sumAll, t, best) ==
  LET w0 == best.below + histogram[t]
      sum0 == best.belowSum + t * histogram[t]
      w1 == total - w0
      sum1 == sumAll - sum0
      diff == IF sum0 * w1 >= sum1 * w0 THEN sum0 * w1 - sum1 * w0
                                        ELSE sum1 * w0 - sum0 * w1
      den == w0 * w1
  IN  IF w0 = 0 \/ w1 = 0
        THEN [best EXCEPT !.below = w0, !.belowSum = sum0]
        ELSE IF otsuUpdate(diff, den, best)
          THEN [below |-> w0, belowSum |-> sum0, maxDiff |-> diff, maxDen |-> den,
                optimalThreshold |-> t]
          ELSE [best EXCEPT !.below = w0, !.belowSum = sum0]

\* for (t = lo; t <= hi; t++), in ascending order of t: the lower half of the
\* thresholds is run to its end (the test on it is always true and only makes
\* the evaluation finish it first), then the upper half continues from it
RECURSIVE otsuLoop(_, _, _, _, _, _)
otsuLoop(histogram, total, sumAll, lo, hi, best) ==
  IF lo = hi
    THEN otsuStep(histogram, total, sumAll, lo, best)
    ELSE LET mid == (lo + hi) \div 2
             lower == otsuLoop(histogram, total, sumAll, lo, mid, best)
         IN  IF lower.optimalThreshold >= 0
               THEN otsuLoop(histogram, total, sumAll, mid + 1, hi, lower)
               ELSE lower

\* maxVariance = 0, optimalThreshold = 128 before the loop
otsuThreshold(imageData) ==
  LET histogram == otsuHistogram(imageData)
  IN  otsuLoop(histogram, PixelCount(imageData),
               binSum(histogram, 0, GrayLevels - 1, TRUE),
               0, GrayLevels - 1,
               [below |-> 0, belowSum |-> 0, maxDiff |-> 0, maxDen |-> 1,
                optimalThreshold |-> DefaultThreshold]).optimalThreshold

otsuBinarize(imageData) == binarize(imageData, otsuThreshold(imageData))

(***************************************************************************)
(* Driver: otsuBinarize on bounded buffers                                 *)
(***************************************************************************)
MaxOtsuArea == 4

OtsuPalette == {Gray(0), Gray(50), Gray(51), Gray(200), Gray(255), <<255, 0, 0>>}

InitOtsu ==
  /\ pc = "ready"
  /\ arg \in Images(OtsuPalette, MaxOtsuArea)
  /\ ret = None
  /\ EngineConstructed

OtsuBinarizeCall ==
  /\ pc = "ready"
  /\ ret' = [threshold |-> otsuThreshold(arg), image |-> otsuBinarize(arg)]
  /\ pc' = "done"
  /\ UNCHANGED <<arg, engineVars>>

NextOtsu == OtsuBinarizeCall

SpecOtsu == InitOtsu /\ [][NextOtsu]_vars

PixelLumas(imageData) ==
  {Luma1000(imageData.data, 4 * j) : j \in 0..(PixelCount(imageData) - 1)}

\* C3: for a buffer with exactly two distinct luma values a < b, otsuBinarize
\* turns every pixel of luma a into foreground (0) and every pixel of luma b
\* into background (255).
C3_OtsuSeparatesTwoPeaks ==
  (pc = "done" /\ Cardinality(PixelLumas(arg)) = 2) =>
     \A j \in 0..(PixelCount(arg) - 1) :
        At(ret.image.data, 4 * j) =
          IF Luma1000(arg.data, 4 * j) = MinOfSet(PixelLumas(arg)) THEN 0 ELSE 255

(***************************************************************************)
(* CharSegmentation.connectedComponentAnalysis                             *)
(***************************************************************************)
MinComponentSize == 5

ccaNeighborsNoTopRight(labels, x, y, width) ==
  LET idx == y * width + x
  IN  (IF x > 0 /\ At(labels, idx - 1) # -1
         THEN <<At(labels, idx - 1)>> ELSE <<>>)
      \o (IF y > 0 /\ At(labels, idx - width) # -1
            THEN <<At(labels, idx - width)>> ELSE <<>>)
      \o (IF x > 0 /\ y > 0 /\ At(labels, idx - width - 1) # -1
            THEN <<At(labels, idx - width - 1)>> ELSE <<>>)

\* const neighbors: the labels of the left, top, top-left and top-right
\* pixels that are already labelled, in that order
ccaNeighbors(labels, x, y, width) ==
  LET idx == y * width + x
  IN  (IF x > 0 /\ At(labels, idx - 1) # -1
         THEN <<At(labels, idx - 1)>> ELSE <<>>)
      \o (IF y > 0 /\ At(labels, idx - width) # -1
            THEN <<At(labels, idx - width)>> ELSE <<>>)
      \o (IF x > 0 /\ y > 0 /\ At(labels, idx - width - 1) # -1
            THEN <<At(labels, idx - width - 1)>> ELSE <<>>)
      \o (IF x < width - 1 /\ y > 0 /\ At(labels, idx - width + 1) # -1
            THEN <<At(labels, idx - width + 1)>> ELSE <<>>)

RECURSIVE MinOfSeq(_)
MinOfSeq(s) ==
  IF Len(s) = 1 THEN s[1] ELSE Min2(s[1], MinOfSeq(Tail(s)))

\* labelMap is a Map from label to a Set object that several labels may
\* share.  st.labelMap gives each label the identity of its Set object (the
\* label it was created for) and st.sets gives each object its members.
\*   set2.forEach(l => { set1.add(l); labelMap.set(l, set1); })
ccaMerge(st, minLabel, label) ==
  IF label = minLabel
    THEN st
    ELSE LET set1 == st.labelMap[minLabel]
             set2 == st.labelMap[label]
         IN  [st EXCEPT
                !.sets = [st.sets EXCEPT ![set1] = st.sets[set1] \cup st.sets[set2]],
                !.labelMap = [l \in DOMAIN st.labelMap |->
                                IF l \in st.sets[set2] THEN set1 ELSE st.labelMap[l]]]

\* neighbors.forEach(label => ...) from the k-th neighbour on
RECURSIVE ccaMergeAll(_, _, _, _)
ccaMergeAll(st, minLabel, neighbors, k) ==
  IF k > Len(neighbors)
    THEN st
    ELSE ccaMergeAll(ccaMerge(st, minLabel, neighbors[k]), minLabel, neighbors, k + 1)

\* the body of the first pass for the pixel idx = y * width + x
ccaLabelPixel(binary, st, idx) ==
  LET x == idx % binary.width
      y == idx \div binary.width
      neighbors == ccaNeighbors(st.labels, x, y, binary.width)
  IN  IF At(binary.data, idx * 4) >= 128
        THEN st
        ELSE IF Len(neighbors) = 0
          THEN [labels |-> SetAt(st.labels, idx, st.currentLabel),
                currentLabel |-> st.currentLabel + 1,
                labelMap |-> [l \in 0..st.currentLabel |->
                                IF l = st.currentLabel THEN st.currentLabel
                                ELSE st.labelMap[l]],
                sets |-> [l \in 0..st.currentLabel |->
                            IF l = st.currentLabel THEN {st.currentLabel}
                            ELSE st.sets[l]]]
          ELSE LET minLabel == MinOfSeq(neighbors)
               IN  ccaMergeAll([st EXCEPT !.labels = SetAt(st.labels, idx, minLabel)],
                               minLabel, neighbors, 1)

\* for (let x = 0; x < width; x++): the pixels idx..last of one row (the test
\* on the state after pixel idx is always true; it makes the evaluation
\* finish that pixel before the next)
RECURSIVE ccaFirstPassRow(_, _, _, _)
ccaFirstPassRow(binary, st, idx, last) ==
  IF idx > last
    THEN st
    ELSE LET after == ccaLabelPixel(binary, st, idx)
         IN  IF after.currentLabel >= 0
               THEN ccaFirstPassRow(binary, after, idx + 1, last)
               ELSE after

\* for (let y = 0; y < height; y++): the first pass from the row that starts
\* at pixel idx on
RECURSIVE ccaFirstPass(_, _, _)
ccaFirstPass(binary, st, idx) ==
  IF idx >= binary.width * binary.height
    THEN st
    ELSE LET after == ccaFirstPassRow(binary, st, idx, idx + binary.width - 1)
         IN  IF after.currentLabel >= 0
               THEN ccaFirstPass(binary, after, idx + binary.width)
               ELSE after

ccaLabels(binary) ==
  ccaFirstPass(binary,
               [labels |-> Fill(binary.width * binary.height, -1),
                currentLabel |-> 0,
                labelMap |-> [l \in {} |-> 0],
                sets |-> [l \in {} |-> {}]],
               0)

\* second pass: rootLabel = Math.min(...labelMap.get(labels[i]))
ccaFinalLabels(st) ==
  [i \in 1..Len(st.labels) |->
     IF st.labels[i] # -1
       THEN MinOfSet(st.sets[st.labelMap[st.labels[i]]])
       ELSE -1]

\* the keys of boundingBoxes in insertion order: seen, then the final labels
\* that the row-major scan meets from pixel i on and that are not in seen, in
\* the order in which it first meets them
ccaLabelOrder(finalLabels, i, seen) ==
  LET fresh == {finalLabels[j] : j \in i..Len(finalLabels)}
                 \ ({-1} \cup {seen[k] : k \in 1..Len(seen)})
      firstMet(label) ==
        CHOOSE j \in i..Len(finalLabels) :
          /\ finalLabels[j] = label
          /\ \A m \in i..(j - 1) : finalLabels[m] # label
      nth(k) ==
        CHOOSE label \in fresh :
          Cardinality({other \in fresh : firstMet(other) < firstMet(label)}) = k - 1
  IN  seen \o [k \in 1..Cardinality(fresh) |-> nth(k)]

\* the box accumulated for one label: min/max of x and of y over its pixels
ccaBoundingBox(finalLabels, width, label) ==
  LET pixels == {i \in 0..(Len(finalLabels) - 1) : At(finalLabels, i) = label}
      xs == {i % width : i \in pixels}
      ys == {i \div width : i \in pixels}
  IN  [minX |-> MinOfSet(xs), minY |-> MinOfSet(ys),
       maxX |-> CHOOSE m \in xs : \A o \in xs : o <= m,
       maxY |-> CHOOSE m \in ys : \A o \in ys : o <= m]

\* the SegmentedChar of one box: position, size and the component's own
\* bitmap (its pixels black, all others white)
ccaChar(finalLabels, width, label, box) ==
  LET charWidth == box.maxX - box.minX + 1
      charHeight == box.maxY - box.minY + 1
  IN  [x |-> box.minX, y |-> box.minY, width |-> charWidth, height |-> charHeight,
       imageData |->
         [width |-> charWidth, height |-> charHeight,
          data |-> [k \in 1..(4 * charWidth * charHeight) |->
                      LET dstIdx == (k - 1) \div 4
                          srcIdx == (box.minY + (dstIdx \div charWidth)) * width
                                    + box.minX + (dstIdx % charWidth)
                      IN  IF (k - 1) % 4 = 3 THEN 255
                          ELSE IF At(finalLabels, srcIdx) = label THEN 0 ELSE 255]]]

\* charWidth < 5 && charHeight < 5 in the place of ||
tooSmallBothWays(charWidth, charHeight) ==
  charWidth < MinComponentSize /\ charHeight < MinComponentSize

\* if (charWidth < 5 || charHeight < 5) return
tooSmall(charWidth, charHeight) ==
  charWidth < MinComponentSize \/ charHeight < MinComponentSize

\* boundingBoxes.forEach: boxes narrower or shorter than 5 are skipped, and so
\* is a box whose canvas gives no 2d context (ctxOk is getContext's outcome)
RECURSIVE ccaChars(_, _, _, _, _)
ccaChars(finalLabels, width, order, k, ctxOk) ==
  IF k > Len(order)
    THEN <<>>
    ELSE LET box == ccaBoundingBox(finalLabels, width, order[k])
             rest == ccaChars(finalLabels, width, order, k + 1, ctxOk)
         IN  IF tooSmall(box.maxX - box.minX + 1, box.maxY - box.minY + 1)
                \/ ~ctxOk
               THEN rest
               ELSE <<ccaChar(finalLabels, width, order[k], box)>> \o rest

connectedComponentAnalysis(imageData, ctxOk) ==
  LET binary == binarize(imageData, DefaultThreshold)
      finalLabels == ccaFinalLabels(ccaLabels(binary))
  IN  ccaChars(finalLabels, binary.width, ccaLabelOrder(finalLabels, 1, <<>>), 1, ctxOk)

(***************************************************************************)
(* Driver: connectedComponentAnalysis on bounded buffers                   *)
(***************************************************************************)
MaxCcaArea == 10
BlockCanvasWidth == 8
BlockCanvasHeight == 6

BinaryPalette == {Gray(0), Gray(255)}

\* a solid 5x5 block at (ox, oy) on a white canvas, optionally with a speck
\* of one black pixel in the top right corner
BlockImage(ox, oy, speck) ==
  ImageData(BlockCanvasWidth, BlockCanvasHeight,
    [p \in 1..(BlockCanvasWidth * BlockCanvasHeight) |->
       LET x == (p - 1) % BlockCanvasWidth
           y == (p - 1) \div BlockCanvasWidth
       IN  IF \/ (x >= ox /\ x < ox + 5 /\ y >= oy /\ y < oy + 5)
              \/ (speck /\ x = BlockCanvasWidth - 1 /\ y = 0)
             THEN Gray(0) ELSE Gray(255)])

BlockImages ==
  {BlockImage(ox, oy, FALSE) :
     ox \in 0..(BlockCanvasWidth - 5), oy \in 0..(BlockCanvasHeight - 5)}
  \cup {BlockImage(ox, oy, TRUE) :
     ox \in 0..(BlockCanvasWidth - 7), oy \in 0..(BlockCanvasHeight - 5)}

\* 7x3 combs: four separate teeth in the top row, any middle row, a solid
\* bottom row; the teeth's labels are merged pairwise and then set with set
CombImages ==
  {ImageData(7, 3, [p \in 1..21 |->
      IF p <= 7 THEN (IF p % 2 = 1 THEN Gray(0) ELSE Gray(255))
      ELSE IF p <= 14 THEN mid[p - 7]
      ELSE Gray(0)]) : mid \in [1..7 -> BinaryPalette]}

InitCca ==
  /\ pc = "ready"
  /\ arg \in Images(BinaryPalette, MaxCcaArea) \cup BlockImages \cup CombImages
  /\ ret = None
  /\ EngineConstructed

\* ret keeps the returned chars and, for the claims about them, the locals
\* labels and finalLabels
ConnectedComponentAnalysisCall ==
  /\ pc = "ready"
  /\ LET st == ccaLabels(binarize(arg, DefaultThreshold))
     IN  ret' = [chars |-> connectedComponentAnalysis(arg, TRUE),
                 labels |-> st.labels,
                 finalLabels |-> ccaFinalLabels(st)]
  /\ pc' = "done"
  /\ UNCHANGED <<arg, engineVars>>

NextCca == ConnectedComponentAnalysisCall

SpecCca == InitCca /\ [][NextCca]_vars

\* pixels p, q (row-major indexes) are horizontally, vertically or diagonally
\* adjacent
Adjacent8(p, q, width) ==
  LET dx == (p % width) - (q % width)
      dy == (p \div width) - (q \div width)
  IN  p # q /\ dx \in {-1, 0, 1} /\ dy \in {-1, 0, 1}

\* the foreground pixels joined to p by a path of adjacent foreground pixels
RECURSIVE GrowComponent(_, _, _)
GrowComponent(fg, width, comp) ==
  LET next == comp \cup {q \in fg : \E p \in comp : Adjacent8(p, q, width)}
  IN  IF next = comp THEN comp ELSE GrowComponent(fg, width, next)

ComponentOf(fg, width, p) == GrowComponent(fg, width, {p})

\* a disjoint-set labeler: parent links, find by following them, and a union
\* for every pair of adjacent foreground pixels
RECURSIVE DsuFind(_, _)
DsuFind(parent, p) == IF parent[p] = p THEN p ELSE DsuFind(parent, parent[p])

DsuUnion(parent, p, q) ==
  LET rp == DsuFind(parent, p)
      rq == DsuFind(parent, q)
  IN  IF rp = rq THEN parent
      ELSE [parent EXCEPT ![Max2(rp, rq)] = Min2(rp, rq)]

RECURSIVE DsuUnionAll(_, _)
DsuUnionAll(parent, pairs) ==
  IF pairs = {} THEN parent
  ELSE LET pr == CHOOSE x \in pairs : TRUE
       IN  DsuUnionAll(DsuUnion(parent, pr[1], pr[2]), pairs \ {pr})

DsuParents(fg, width) ==
  DsuUnionAll([p \in fg |-> p],
              {pr \in fg \X fg : pr[1] < pr[2] /\ Adjacent8(pr[1], pr[2], width)})

C4_Witness ==
  /\ pc = "done"
  /\ arg = BlockImage(1, 1, FALSE)
  /\ Len(ret.chars) = 1
  /\ ret.chars[1].x = 1 /\ ret.chars[1].y = 1

\* a case where the first pass opens several provisional labels for one
\* component and the second pass joins them
C4_WitnessMerge ==
  /\ pc = "done"
  /\ arg.width = 5 /\ arg.height = 2
  /\ Cardinality({At(ret.labels, p) : p \in ForegroundPixels(arg)}) = 3
  /\ Cardinality({At(ret.finalLabels, p) : p \in ForegroundPixels(arg)}) = 1

(***************************************************************************)
(* KNN                                                                     *)
(***************************************************************************)
\* sum over i < a.length of (a[i] - b[i]) ** 2.  euclideanDistance returns
\* its square root; the square root is increasing and, on these integers,
\* one-to-one, so comparing and ordering the sums is comparing and ordering
\* the distances.
RECURSIVE squaredDistance(_, _)
squaredDistance(a, b) ==
  IF a = <<>> THEN 0
  ELSE (Head(a) - Head(b)) * (Head(a) - Head(b)) + squaredDistance(Tail(a), Tail(b))

knnCompareReversed(a, b) == b.distance - a.distance

\* the comparator of distances.sort((a, b) => a.distance - b.distance)
knnCompare(a, b) == a.distance - b.distance

\* Array.prototype.sort is stable: x goes after every element that does not
\* compare greater than it
RECURSIVE knnInsert(_, _)
knnInsert(sorted, x) ==
  IF sorted = <<>> THEN <<x>>
  ELSE IF knnCompare(Head(sorted), x) <= 0
    THEN <<Head(sorted)>> \o knnInsert(Tail(sorted), x)
    ELSE <<x>> \o sorted

RECURSIVE knnSort(_)
knnSort(distances) ==
  IF distances = <<>> THEN <<>>
  ELSE knnInsert(knnSort(SubSeq(distances, 1, Len(distances) - 1)),
                 distances[Len(distances)])

\* distances: one entry per training sample with a truthy label, in order
RECURSIVE knnDistances(_, _)
knnDistances(samples, features) ==
  IF samples = <<>> THEN <<>>
  ELSE (IF Head(samples).label # ""
          THEN <<[label |-> Head(samples).label,
                  distance |-> squaredDistance(features, Head(samples).features)]>>
          ELSE <<>>)
       \o knnDistances(Tail(samples), features)

\* votes: a Map from label to count, kept as the sequence of its entries in
\* insertion order
RECURSIVE countVotes(_, _)
countVotes(labels, votes) ==
  IF labels = <<>> THEN votes
  ELSE LET label == Head(labels)
           known == {i \in 1..Len(votes) : votes[i].label = label}
       IN  countVotes(Tail(labels),
             IF known = {}
               THEN Append(votes, [label |-> label, count |-> 1])
               ELSE [i \in 1..Len(votes) |->
                       IF i \in known
                         THEN [votes[i] EXCEPT !.count = votes[i].count + 1]
                         ELSE votes[i]])

\* for (const [label, count] of votes) if (count > max) ...: the first entry
\* with the largest count, or dflt when there is none with a count > 0
RECURSIVE firstMaxLabel(_, _, _)
firstMaxLabel(votes, maxCount, best) ==
  IF votes = <<>> THEN best
  ELSE IF Head(votes).count > maxCount
    THEN firstMaxLabel(Tail(votes), Head(votes).count, Head(votes).label)
    ELSE firstMaxLabel(Tail(votes), maxCount, best)

Null == "null"

knnPredict(self, features) ==
  IF Len(self.trainingData) = 0 THEN Null
  ELSE LET distances == knnSort(knnDistances(self.trainingData, features))
           kNearest == SubSeq(distances, 1, Min2(self.k, Len(distances)))
           votes == countVotes([i \in 1..Len(kNearest) |-> kNearest[i].label], <<>>)
       IN  firstMaxLabel(votes, 0, Null)

(***************************************************************************)
(* Driver: KNN.fit then KNN.predict                                        *)
(***************************************************************************)
MaxTrain == 3
MaxK == 2

KnnPoints == {<<0, 0>>, <<1, 0>>, <<0, 2>>, <<2, 2>>}

KnnLabels == {"A", "B", ""}

KnnSamples == [features : KnnPoints, label : KnnLabels]

InitKnn ==
  /\ pc = "ready"
  /\ arg \in [k : 1..MaxK,
              trainingData : UNION {[1..n -> KnnSamples] : n \in 0..MaxTrain},
              features : KnnPoints]
  /\ ret = None
  /\ EngineConstructed

\* new KNN(k); fit(data) stores the data; predict(features)
KnnPredictCall ==
  /\ pc = "ready"
  /\ ret' = knnPredict([k |-> arg.k, trainingData |-> arg.trainingData], arg.features)
  /\ pc' = "done"
  /\ UNCHANGED <<arg, engineVars>>

NextKnn == KnnPredictCall

SpecKnn == InitKnn /\ [][NextKnn]_vars

DistinctDistances(samples, features) ==
  \A i, j \in 1..Len(samples) :
     i # j => squaredDistance(features, samples[i].features)
                # squaredDistance(features, samples[j].features)

\* brute-force nearest neighbour: the label of a sample no other is nearer than
BruteForceNearest(samples, features) ==
  samples[CHOOSE i \in 1..Len(samples) :
                 \A j \in 1..Len(samples) :
                    squaredDistance(features, samples[i].features)
                      <= squaredDistance(features, samples[j].features)].label

\* C5: with k = 1 and labelled training points at distinct distances to the
\* query, KNN.predict returns the label of the nearest training point, as a
\* brute-force nearest-neighbour search does.
C5_KnnNearest ==
  (/\ pc = "done"
   /\ arg.k = 1
   /\ Len(arg.trainingData) > 0
   /\ \A i \in 1..Len(arg.trainingData) : arg.trainingData[i].label # ""
   /\ DistinctDistances(arg.trainingData, arg.features))
  => ret = BruteForceNearest(arg.trainingData, arg.features)

C5_Witness ==
  /\ pc = "done"
  /\ arg.k = 1
  /\ arg.features = <<0, 0>>
  /\ arg.trainingData = <<[features |-> <<2, 2>>, label |-> "A"],
                          [features |-> <<1, 0>>, label |-> "B"],
                          [features |-> <<0, 2>>, label |-> "A"]>>
  /\ ret = "B"

(***************************************************************************)
(* DecisionTree                                                            *)
(***************************************************************************)
MaxDepth == 5
MinSplitSamples == 5

\* labelCounts: the Map from label to count over the samples with a truthy
\* label, as its entries in insertion order
labelCounts(data) ==
  countVotes(SelectSeq([i \in 1..Len(data) |-> data[i].label], LAMBDA l : l # ""), <<>>)

getMajorityLabel(data) == firstMaxLabel(labelCounts(data), 0, "")

\* 1000000 * log2(n), rounded, for n = 1..16.  Math.log2 is a double; the
\* entropies below are kept in millionths of a bit.
Log2Micro ==
  <<0, 1000000, 1584963, 2000000, 2321928, 2584963, 2807355, 3000000,
    3169925, 3321928, 3459432, 3584963, 3700440, 3807355, 3906891, 4000000>>

\* data.length * calculateEntropy(data): the sum over the labels of
\* count * (log2(total) - log2(count)), which is -total * sum of p * log2(p)
RECURSIVE sizeEntropy(_, _)
sizeEntropy(counts, total) ==
  IF counts = <<>> THEN 0
  ELSE Head(counts).count * (Log2Micro[total] - Log2Micro[Head(counts).count])
       + sizeEntropy(Tail(counts), total)

sizeTimesEntropy(data) == sizeEntropy(labelCounts(data), Len(data))

treeSort(values) ==
  LET RECURSIVE ins(_, _)
      ins(sorted, x) ==
        IF sorted = <<>> THEN <<x>>
        ELSE IF Head(sorted) - x <= 0
          THEN <<Head(sorted)>> \o ins(Tail(sorted), x)
          ELSE <<x>> \o sorted
      RECURSIVE srt(_)
      srt(v) == IF v = <<>> THEN <<>>
                ELSE ins(srt(SubSeq(v, 1, Len(v) - 1)), v[Len(v)])
  IN  srt(values)

treeGainWorse(gain, best) == best.finite /\ gain < best.bestGain

\* if (gain > bestGain); bestGain starts at -Infinity, which best.finite =
\* FALSE stands for
treeGainBetter(gain, best) == ~best.finite \/ gain > best.bestGain

\* the body of the inner loop of findBestSplit for feature featureIndex and
\* the i-th midpoint.  gain is data.length times the source's gain: all the
\* gains compared in one call share data.length.
treeTrySplit(data, values, featureIndex, i, best) ==
  LET threshold == (At(values, i) + At(values, i + 1)) \div 2
      leftData == SelectSeq(data, LAMBDA d : At(d.features, featureIndex) <= threshold)
      rightData == SelectSeq(data, LAMBDA d : At(d.features, featureIndex) > threshold)
      gain == sizeTimesEntropy(data)
              - (sizeTimesEntropy(leftData) + sizeTimesEntropy(rightData))
  IN  IF Len(leftData) = 0 \/ Len(rightData) = 0
        THEN best
        ELSE IF treeGainBetter(gain, best)
          THEN [finite |-> TRUE, bestGain |-> gain, bestFeature |-> featureIndex,
                bestThreshold |-> threshold]
          ELSE best

RECURSIVE treeSplitLoop(_, _, _, _, _)
treeSplitLoop(data, values, featureIndex, i, best) ==
  IF i >= Len(values) - 1 THEN best
  ELSE treeSplitLoop(data, values, featureIndex, i + 1,
                     treeTrySplit(data, values, featureIndex, i, best))

RECURSIVE treeFeatureLoop(_, _, _)
treeFeatureLoop(data, featureIndex, best) ==
  IF featureIndex >= Len(data[1].features) THEN best
  ELSE treeFeatureLoop(data, featureIndex + 1,
         treeSplitLoop(data,
                       treeSort([k \in 1..Len(data) |-> At(data[k].features, featureIndex)]),
                       featureIndex, 0, best))

findBestSplit(data) ==
  LET best == treeFeatureLoop(data, 0,
                [finite |-> FALSE, bestGain |-> 0, bestFeature |-> 0,
                 bestThreshold |-> 0])
  IN  [featureIndex |-> best.bestFeature, threshold |-> best.bestThreshold]

\* depth > 5 in the place of depth >= 5
atDepthCapLate(data, depth) == depth > MaxDepth \/ Len(data) < MinSplitSamples

\* if (depth >= 5 || data.length < 5)
atDepthCap(data, depth) == depth >= MaxDepth \/ Len(data) < MinSplitSamples

RECURSIVE buildTree(_, _)
buildTree(data, depth) ==
  LET labels == {data[i].label : i \in 1..Len(data)} \ {""}
  IN  IF Cardinality(labels) = 1
        THEN [type |-> "leaf", label |-> CHOOSE l \in labels : TRUE]
        ELSE IF atDepthCap(data, depth)
          THEN [type |-> "leaf", label |-> getMajorityLabel(data)]
          ELSE LET split == findBestSplit(data)
                   leftData == SelectSeq(data,
                     LAMBDA d : At(d.features, split.featureIndex) <= split.threshold)
                   rightData == SelectSeq(data,
                     LAMBDA d : At(d.features, split.featureIndex) > split.threshold)
               IN  IF Len(leftData) = 0 \/ Len(rightData) = 0
                     THEN [type |-> "leaf", label |-> getMajorityLabel(data)]
                     ELSE [type |-> "internal",
                           featureIndex |-> split.featureIndex,
                           threshold |-> split.threshold,
                           left |-> buildTree(leftData, depth + 1),
                           right |-> buildTree(rightData, depth + 1)]

RECURSIVE traverseTree(_, _)
traverseTree(features, node) ==
  IF node.type = "leaf"
    THEN (IF node.label # "" THEN node.label ELSE Null)
    ELSE IF At(features, node.featureIndex) <= node.threshold
      THEN traverseTree(features, node.left)
      ELSE traverseTree(features, node.right)

treeFit(data) == IF Len(data) = 0 THEN NullTree ELSE buildTree(data, 0)

treePredict(tree, features) ==
  IF tree.type = "null" THEN Null ELSE traverseTree(features, tree)

(***************************************************************************)
(* Driver: DecisionTree.fit on 1-feature data labelled by the side of 0.5, *)
(* then predict on every training sample.  Features are in units of 0.05,  *)
(* so that every midpoint of two of them is a whole number of units.       *)
(***************************************************************************)
MaxTreeSamples == 6

TreeFeatureValues == {2, 8, 12, 18}

\* the side of 0.5 (10 units) a feature lies on
SideLabel(v) == IF v < 10 THEN "lo" ELSE "hi"

InitTree ==
  /\ pc = "ready"
  /\ arg \in UNION {[1..n -> {[features |-> <<v>>, label |-> SideLabel(v)] :
                                v \in TreeFeatureValues}] : n \in 1..MaxTreeSamples}
  /\ ret = None
  /\ EngineConstructed

DecisionTreeFitPredictCall ==
  /\ pc = "ready"
  /\ LET tree == treeFit(arg)
     IN  ret' = [tree |-> tree,
                 predictions |-> [i \in 1..Len(arg) |-> treePredict(tree, arg[i].features)]]
  /\ pc' = "done"
  /\ UNCHANGED <<arg, engineVars>>

NextTree == DecisionTreeFitPredictCall

SpecTree == InitTree /\ [][NextTree]_vars

TrainingLabels(data) == {data[i].label : i \in 1..Len(data)}

\* C6 as claimed: for every non-empty separable 1-feature training set, of any
\* size, predict returns every training sample's own label.
C6_TreeFitsAnySize ==
  pc = "done" => \A i \in 1..Len(arg) : ret.predictions[i] = arg[i].label

\* C6 as amended: the training labels are all reproduced when the set has at
\* least 5 samples or holds a single label; a set of fewer than 5 samples
\* with both labels is fitted as one majority-label leaf.
C6_TreeFitsFromFiveSamples ==
  pc = "done" =>
     /\ (Len(arg) >= MinSplitSamples \/ Cardinality(TrainingLabels(arg)) = 1)
          => \A i \in 1..Len(arg) : ret.predictions[i] = arg[i].label
     /\ (Len(arg) < MinSplitSamples /\ Cardinality(TrainingLabels(arg)) = 2)
          => /\ ret.tree.type = "leaf"
             /\ \E i \in 1..Len(arg) : ret.predictions[i] # arg[i].label

C6_Witness ==
  /\ pc = "done"
  /\ Len(arg) = 5
  /\ Cardinality(TrainingLabels(arg)) = 2
  /\ ret.tree.type = "internal"
  /\ ret.tree.threshold = 10
  /\ \A i \in 1..Len(arg) : ret.predictions[i] = arg[i].label

(***************************************************************************)
(* CharSegmentation.findRanges                                             *)
(***************************************************************************)
RECURSIVE gapSizeAfter(_, _)
gapSizeAfter(projection, j) ==
  IF j + 1 < Len(projection) /\ At(projection, j + 1) = 0
    THEN 1 + gapSizeAfter(projection, j + 1)
    ELSE 0

\* let gapSize = 0; for (j = i; j < length && projection[j] === 0; j++) gapSize++
RECURSIVE gapSize(_, _)
gapSize(projection, j) ==
  IF j < Len(projection) /\ At(projection, j) = 0
    THEN 1 + gapSize(projection, j + 1)
    ELSE 0

\* the loop of findRanges from index i on, with its locals inRange, start, ranges
RECURSIVE findRangesLoop(_, _, _, _, _, _)
findRangesLoop(projection, minGap, i, inRange, start, ranges) ==
  IF i >= Len(projection)
    THEN IF inRange
           THEN Append(ranges, [start |-> start, end |-> Len(projection)])
           ELSE ranges
    ELSE IF At(projection, i) > 0
      THEN findRangesLoop(projection, minGap, i + 1, TRUE,
                          IF inRange THEN start ELSE i, ranges)
      ELSE IF inRange /\ (gapSize(projection, i) >= minGap
                          \/ i = Len(projection) - 1)
        THEN findRangesLoop(projection, minGap, i + 1, FALSE, start,
                            Append(ranges, [start |-> start, end |-> i]))
        ELSE findRangesLoop(projection, minGap, i + 1, inRange, start, ranges)

findRangesFromSecond(projection, minGap) ==
  findRangesLoop(projection, minGap, 1, FALSE, 0, <<>>)

findRanges(projection, minGap) ==
  findRangesLoop(projection, minGap, 0, FALSE, 0, <<>>)

(***************************************************************************)
(* Driver: findRanges on bounded histograms                                *)
(***************************************************************************)
MaxHistLen == 6
MaxCount == 2
MaxGap == 3

SpecExampleHistogram == <<0, 0, 3, 4, 0, 0, 0, 5, 2, 0>>

Histograms ==
  UNION {[1..n -> 0..MaxCount] : n \in 0..MaxHistLen} \cup {SpecExampleHistogram}

InitRanges ==
  /\ pc = "ready"
  /\ arg \in {[projection |-> h, minGap |-> g] : h \in Histograms, g \in 1..MaxGap}
  /\ ret = None
  /\ EngineConstructed

FindRangesCall ==
  /\ pc = "ready"
  /\ ret' = findRanges(arg.projection, arg.minGap)
  /\ pc' = "done"
  /\ UNCHANGED <<arg, engineVars>>

NextRanges == FindRangesCall

SpecRanges == InitRanges /\ [][NextRanges]_vars

\* The maximal runs of consecutive positive entries of h, as half-open ranges.
IsPositiveRun(h, s, e) ==
  /\ 0 <= s /\ s < e /\ e <= Len(h)
  /\ \A i \in s..(e - 1) : At(h, i) > 0

MaximalRuns(h) ==
  {r \in [start : 0..Len(h), end : 0..Len(h)] :
     /\ IsPositiveRun(h, r.start, r.end)
     /\ (r.start = 0 \/ At(h, r.start - 1) <= 0)
     /\ (r.end = Len(h) \/ At(h, r.end) <= 0)}

RangesAscending(rs) ==
  \A i \in 1..(Len(rs) - 1) : rs[i].end <= rs[i + 1].start

\* C1: findRanges(h, 1) returns, in ascending order, exactly the maximal runs
\* of consecutive positive entries of h as half-open ranges [start,end); on
\* [0,0,3,4,0,0,0,5,2,0] it returns exactly [2,4) and [7,9).
C1_FindRangesMaximalRuns ==
  (pc = "done" /\ arg.minGap = 1) =>
     /\ RangesAscending(ret)
     /\ {ret[i] : i \in 1..Len(ret)} = MaximalRuns(arg.projection)
     /\ Len(ret) = Cardinality(MaximalRuns(arg.projection))
     /\ (arg.projection = SpecExampleHistogram =>
           ret = <<[start |-> 2, end |-> 4], [start |-> 7, end |-> 9]>>)

C1_Witness ==
  /\ pc = "done"
  /\ arg.minGap = 1
  /\ arg.projection = SpecExampleHistogram
  /\ Len(ret) = 2

Punct(c) == [t |-> "punct", v |-> c]

Bareword == [t |-> "bareword"]

IsPunct(tok, c) == tok.t = "punct" /\ tok.v = c

\* JSON.stringify
RECURSIVE stringify(_), stringifyItems(_, _), stringifyMembers(_, _)
stringify(value) ==
  CASE value.t = "array" ->
         <<Punct("[")>> \o stringifyItems(value.v, 1) \o <<Punct("]")>>
    [] value.t = "object" ->
         <<Punct("{")>> \o stringifyMembers(value.v, 1) \o <<Punct("}")>>
    [] OTHER -> <<value>>

stringifyItems(items, i) ==
  IF i > Len(items) THEN <<>>
  ELSE (IF i > 1 THEN <<Punct(",")>> ELSE <<>>)
       \o stringify(items[i]) \o stringifyItems(items, i + 1)

stringifyMembers(members, i) ==
  IF i > Len(members) THEN <<>>
  ELSE (IF i > 1 THEN <<Punct(",")>> ELSE <<>>)
       \o <<JStr(members[i].k), Punct(":")>> \o stringify(members[i].val)
       \o stringifyMembers(members, i + 1)

\* a key parsed twice keeps its first position and takes the last value
putMember(members, k, val) ==
  IF \E i \in 1..Len(members) : members[i].k = k
    THEN [i \in 1..Len(members) |->
            IF members[i].k = k THEN Member(k, val) ELSE members[i]]
    ELSE Append(members, Member(k, val))

SyntaxError == [ok |-> FALSE]

Parsed(value, next) == [ok |-> TRUE, value |-> value, next |-> next]

\* the value that starts at token i, and the position after it
RECURSIVE parseValue(_, _), parseItems(_, _, _), parseMembers(_, _, _)
parseValue(text, i) ==
  IF i > Len(text) THEN SyntaxError
  ELSE IF text[i].t \in {"number", "string", "null"} THEN Parsed(text[i], i + 1)
  ELSE IF IsPunct(text[i], "[")
    THEN IF i + 1 <= Len(text) /\ IsPunct(text[i + 1], "]")
           THEN Parsed(JArr(<<>>), i + 2)
           ELSE parseItems(text, i + 1, <<>>)
  ELSE IF IsPunct(text[i], "{")
    THEN IF i + 1 <= Len(text) /\ IsPunct(text[i + 1], "}")
           THEN Parsed(JObj(<<>>), i + 2)
           ELSE parseMembers(text, i + 1, <<>>)
  ELSE SyntaxError

parseItems(text, i, items) ==
  LET item == parseValue(text, i)
  IN  IF ~item.ok \/ item.next > Len(text) THEN SyntaxError
      ELSE IF IsPunct(text[item.next], ",")
        THEN parseItems(text, item.next + 1, Append(items, item.value))
      ELSE IF IsPunct(text[item.next], "]")
        THEN Parsed(JArr(Append(items, item.value)), item.next + 1)
      ELSE SyntaxError

parseMembers(text, i, members) ==
  IF i + 1 > Len(text) \/ text[i].t # "string" \/ ~IsPunct(text[i + 1], ":")
    THEN SyntaxError
    ELSE LET val == parseValue(text, i + 2)
         IN  IF ~val.ok \/ val.next > Len(text) THEN SyntaxError
             ELSE IF IsPunct(text[val.next], ",")
               THEN parseMembers(text, val.next + 1,
                                 putMember(members, text[i].v, val.value))
             ELSE IF IsPunct(text[val.next], "}")
               THEN Parsed(JObj(putMember(members, text[i].v, val.value)),
                           val.next + 1)
             ELSE SyntaxError

\* JSON.parse: the whole text is one value, or a SyntaxError is thrown
JsonParse(text) ==
  LET whole == parseValue(text, 1)
  IN  IF whole.ok /\ whole.next = Len(text) + 1 THEN whole ELSE SyntaxError

(***************************************************************************)
(* FeatureExtractor.  The features are doubles; the model keeps each in    *)
(* thousandths, rounded down, and gradient magnitudes in tenths.           *)
(***************************************************************************)
HogCellSize == 8

HogBins == 9

\* data[(y * width + x) * 4]: the red sample, the only one the extractor reads
red(imageData, x, y) == At(imageData.data, (y * imageData.width + x) * 4)

dark(imageData, x, y) == red(imageData, x, y) < DefaultThreshold

Thousandths(n, d) == (n * 1000) \div d

MaxOfSeq(s) == CHOOSE m \in {s[i] : i \in 1..Len(s)} : \A i \in 1..Len(s) : s[i] <= m

\* the largest r in lo..hi with r * r <= n
RECURSIVE isqrtSearch(_, _, _)
isqrtSearch(n, lo, hi) ==
  IF lo = hi THEN lo
  ELSE LET mid == (lo + hi + 1) \div 2
       IN  IF mid * mid <= n THEN isqrtSearch(n, mid, hi)
                             ELSE isqrtSearch(n, lo, mid - 1)

\* Math.sqrt(gx * gx + gy * gy), in tenths
hogMagnitude(gx, gy) == isqrtSearch(100 * (gx * gx + gy * gy), 0, 4000)

\* Math.floor((Math.atan2(gy, gx) * (180 / Math.PI) + 180) / 40) % 9.  The
\* bin edges are the directions at 20, 60, 100 and 140 degrees on either
\* side of the x axis; a gradient of 8-bit samples is on the low side of an
\* edge exactly when its slope is below the edge's tangent taken to six
\* decimals (tan 20 = 0.363970, tan 30 = 0.577350, tan 10 = 0.176327,
\* tan 40 = 0.839100).
hogBin(gx, gy) ==
  LET ay == IF gy < 0 THEN 0 - gy ELSE gy
      sector ==
        IF gx > 0 /\ ay * 1000000 < 363970 * gx THEN 0
        ELSE IF gx > 0 /\ gx * 1000000 > 577350 * ay THEN 1
        ELSE IF gx >= 0 \/ (0 - gx) * 1000000 < 176327 * ay THEN 2
        ELSE IF ay * 1000000 > 839100 * (0 - gx) THEN 3
        ELSE 4
  IN  IF gy = 0 THEN (IF gx >= 0 THEN 4 ELSE 0)
      ELSE IF gy > 0 THEN 4 + sector
      ELSE 4 - sector

\* the gradient histogram of the cell at (cellX, cellY), before normalisation
hogCellHistogram(imageData, cellX, cellY) ==
  LET xEnd == Min2(cellX + HogCellSize, imageData.width - 1)
      yEnd == Min2(cellY + HogCellSize, imageData.height - 1)
      cols == Max2(xEnd - cellX, 0)
      rows == Max2(yEnd - cellY, 0)
      x(p) == cellX + ((p - 1) % cols)
      y(p) == cellY + ((p - 1) \div cols)
      gx(p) == red(imageData, x(p) + 1, y(p)) - red(imageData, x(p), y(p))
      gy(p) == red(imageData, x(p), y(p) + 1) - red(imageData, x(p), y(p))
  IN  [b \in 1..HogBins |->
         SumSeq([p \in 1..(rows * cols) |->
                   IF hogBin(gx(p), gy(p)) = b - 1
                     THEN hogMagnitude(gx(p), gy(p)) ELSE 0])]

hogNormalize(histogram) ==
  IF SumSeq(histogram) > 0
    THEN [i \in 1..HogBins |-> Thousandths(histogram[i], SumSeq(histogram))]
    ELSE histogram

\* features.push(...histogram) for the cells from number cell on, row by row
RECURSIVE hogCells(_, _, _, _)
hogCells(imageData, numCellsX, numCellsY, cell) ==
  IF cell >= numCellsX * numCellsY THEN <<>>
  ELSE hogNormalize(hogCellHistogram(imageData,
                                     (cell % numCellsX) * HogCellSize,
                                     (cell \div numCellsX) * HogCellSize))
       \o hogCells(imageData, numCellsX, numCellsY, cell + 1)

extractHOGFeatures(imageData) ==
  hogCells(imageData,
           (imageData.width + HogCellSize - 1) \div HogCellSize,
           (imageData.height + HogCellSize - 1) \div HogCellSize,
           0)

extractProjectionFeatures(imageData) ==
  LET horizontal == [r \in 1..imageData.height |->
        Cardinality({x \in 0..(imageData.width - 1) : dark(imageData, x, r - 1)})]
      vertical == [c \in 1..imageData.width |->
        Cardinality({y \in 0..(imageData.height - 1) : dark(imageData, c - 1, y)})]
      hMax == MaxOfSeq(horizontal)
      vMax == MaxOfSeq(vertical)
  IN  (IF hMax > 0
         THEN [r \in 1..imageData.height |-> Thousandths(horizontal[r], hMax)]
         ELSE <<>>)
      \o (IF vMax > 0
            THEN [c \in 1..imageData.width |-> Thousandths(vertical[c], vMax)]
            ELSE <<>>)

extractContourFeatures(imageData) ==
  LET width == imageData.width
      height == imageData.height
      ink == {q \in (0..(width - 1)) \X (0..(height - 1)) :
                dark(imageData, q[1], q[2])}
      contourPoints == Cardinality(
        {q \in ink : /\ q[1] >= 1 /\ q[1] < width - 1
                     /\ q[2] >= 1 /\ q[2] < height - 1
                     /\ \/ ~dark(imageData, q[1], q[2] - 1)
                        \/ ~dark(imageData, q[1], q[2] + 1)
                        \/ ~dark(imageData, q[1] - 1, q[2])
                        \/ ~dark(imageData, q[1] + 1, q[2])})
      minX == MinOfSet({q[1] : q \in ink} \cup {width})
      maxX == 0 - MinOfSet({0 - q[1] : q \in ink} \cup {0})
      minY == MinOfSet({q[2] : q \in ink} \cup {height})
      maxY == 0 - MinOfSet({0 - q[2] : q \in ink} \cup {0})
      charWidth == maxX - minX + 1
      charHeight == maxY - minY + 1
  IN  <<Thousandths(contourPoints, width * height),
        IF charHeight > 0 THEN Thousandths(charWidth, charHeight) ELSE 1000,
        Thousandths(Cardinality(ink), width * height),
        Thousandths(charWidth, width),
        Thousandths(charHeight, height)>>

extractAllFeatures(imageData) ==
  extractHOGFeatures(imageData) \o extractProjectionFeatures(imageData)
    \o extractContourFeatures(imageData)

(***************************************************************************)
(* EnhancedOCREngine: the training-data interface.  lastCall is what the   *)
(* caller of a completed call saw: whether it threw, what it returned,     *)
(* and, beside it, console says whether console.error was written and      *)
(* before is this.trainingData at entry.                                   *)
(***************************************************************************)
\* { features, label }
Sample(features, label) ==
  JObj(<<Member("features", JArr([i \in 1..Len(features) |-> JNum(features[i])])),
         Member("label", JStr(label))>>)

\* what a call that returns undefined leaves with its caller
ReturnedUndefined(op, before) ==
  [op |-> op, threw |-> FALSE, returned |-> Undefined, console |-> FALSE,
   before |-> before]

\* value.push is not a function unless value is an array
ThrewTypeError(op, before) ==
  [op |-> op, threw |-> TRUE, returned |-> Undefined, console |-> FALSE,
   before |-> before]

\* this.trainingData.push(sample) for each sample in turn
RECURSIVE pushAll(_, _)
pushAll(array, samples) ==
  IF samples = <<>> THEN array
  ELSE pushAll(JArr(Append(array.v, Head(samples))), Tail(samples))

\* KNN.trainingData after this.trainingData became array: the same object,
\* while KNN.fit's argument is still the engine's array
knnSeeing(array) ==
  IF knn.shared THEN [knn EXCEPT !.trainingData = array] ELSE knn

\* KNN and this.trainingData part when the engine takes a new array
knnApart == [knn EXCEPT !.shared = FALSE]

SampleLabels == {"A", "B", ""}

\* { features, label } of addTrainingSample(imageData, label) for each image
\* of images and each label of labels: features is extractAllFeatures(imageData)
labelledSamples(images, labels) ==
  UNION {LET features == extractAllFeatures(imageData)
         IN  {Sample(features, label) : label \in labels} :
         imageData \in images}

\* this.trainingData.push({ features, label })
addTrainingSample(sample) == pushAll(trainingData, <<sample>>)

MaxTraining == 2

MaxBatch == 2

\* a glyph bitmap a caller trains with: a 2 x 2 diagonal
TrainingGlyph == ImageData(2, 2, <<Gray(0), Gray(255), Gray(255), Gray(0)>>)

TrainingImages == {TrainingGlyph}

\* addTrainingSample(imageData, label) leaving a sample of samples, while
\* the list holds fewer than cap samples; no call is served inside a loop
\* that never ends
AddTrainingSampleOf(samples, cap) ==
  /\ run.stage # "hung"
  /\ \E sample \in samples :
       IF trainingData.t = "array"
         THEN /\ Len(trainingData.v) < cap
              /\ trainingData' = addTrainingSample(sample)
              /\ knn' = knnSeeing(addTrainingSample(sample))
              /\ lastCall' = ReturnedUndefined("addTrainingSample", trainingData)
         ELSE /\ lastCall' = ThrewTypeError("addTrainingSample", trainingData)
              /\ UNCHANGED <<trainingData, knn>>
  /\ UNCHANGED <<pc, arg, ret, options, kmeans, decisionTree, run>>

TrainingSamples == labelledSamples(TrainingImages, SampleLabels)

AddTrainingSample == AddTrainingSampleOf(TrainingSamples, MaxTraining)

AddTrainingSamples ==
  /\ run.stage # "hung"
  /\ \E n \in 0..MaxBatch :
       \E samples \in [1..n -> TrainingImages \X SampleLabels] :
         LET pushed == [i \in 1..n |->
               Sample(extractAllFeatures(samples[i][1]), samples[i][2])]
         IN  IF trainingData.t = "array" \/ n = 0
               THEN /\ trainingData.t = "array" => Len(trainingData.v) + n <= MaxTraining
                    /\ trainingData' =
                         (IF n = 0 THEN trainingData ELSE pushAll(trainingData, pushed))
                    /\ knn' = (IF n = 0 THEN knn
                               ELSE knnSeeing(pushAll(trainingData, pushed)))
                    /\ lastCall' = ReturnedUndefined("addTrainingSamples", trainingData)
               ELSE /\ lastCall' = ThrewTypeError("addTrainingSamples", trainingData)
                    /\ UNCHANGED <<trainingData, knn>>
  /\ UNCHANGED <<pc, arg, ret, options, kmeans, decisionTree, run>>

ClearTrainingData ==
  /\ run.stage # "hung"
  /\ trainingData' = JArr(<<>>)
  /\ knn' = knnApart
  /\ lastCall' = ReturnedUndefined("clearTrainingData", trainingData)
  /\ UNCHANGED <<pc, arg, ret, options, kmeans, decisionTree, run>>

\* the catch branch assigns nothing
importKeepsEmptied(before) == JArr(<<>>)

importKeeps(before) == before

\* try { this.trainingData = JSON.parse(data) } catch (e) { console.error(...) }
importTrainingData(data) ==
  IF JsonParse(data).ok THEN JsonParse(data).value ELSE importKeeps(trainingData)

\* texts JSON.parse rejects: the empty string, an open bracket, a bareword,
\* a trailing comma, and an export cut short
MalformedTexts ==
  { <<>>, <<Punct("[")>>, <<Bareword>>,
    <<Punct("["), JNum(1000), Punct(","), Punct("]")>>,
    SubSeq(stringify(JArr(<<Sample(<<0, 500>>, "A")>>)), 1, 9) }

\* texts JSON.parse accepts that are not a list of samples
ForeignTexts ==
  { <<JNull>>, <<JNum(1000)>>, <<Punct("{"), Punct("}")>>,
    stringify(JArr(<<JNum(1000)>>)) }

\* exports of sample lists
SampleTexts ==
  { stringify(JArr(<<>>)),
    stringify(JArr(<<Sample(<<0, 500>>, "A")>>)),
    stringify(JArr(<<Sample(extractAllFeatures(TrainingGlyph), "B"),
                     Sample(<<1000>>, "")>>)) }

ImportTexts == MalformedTexts \cup ForeignTexts \cup SampleTexts

ImportTrainingData ==
  /\ run.stage # "hung"
  /\ \E data \in ImportTexts :
       /\ trainingData' = importTrainingData(data)
       /\ knn' = (IF JsonParse(data).ok THEN knnApart ELSE knn)
       /\ lastCall' = [op |-> "importTrainingData", threw |-> FALSE,
                       returned |-> Undefined,
                       console |-> ~JsonParse(data).ok,
                       before |-> trainingData, data |-> data]
  /\ UNCHANGED <<pc, arg, ret, options, kmeans, decisionTree, run>>

(***************************************************************************)
(* The training-data interface under any sequence of its calls             *)
(***************************************************************************)
InitTraining ==
  /\ pc = None
  /\ arg = None
  /\ ret = None
  /\ EngineConstructed

NextTraining ==
  \/ AddTrainingSample
  \/ AddTrainingSamples
  \/ ClearTrainingData
  \/ ImportTrainingData

SpecTraining == InitTraining /\ [][NextTraining]_vars

\* C8: importTrainingData of a text JSON.parse rejects does not throw and
\* leaves this.trainingData as it was at entry.
C8_MalformedImportKeepsSamples ==
  (lastCall.op = "importTrainingData" /\ lastCall.data \in MalformedTexts)
    => (~lastCall.threw /\ trainingData = lastCall.before)

\* a malformed import arrived at a list that earlier adds and an import built
C8_Witness ==
  /\ lastCall.op = "importTrainingData"
  /\ lastCall.data \in MalformedTexts
  /\ lastCall.data # <<>>
  /\ trainingData.t = "array"
  /\ Len(trainingData.v) = 2
  /\ trainingData = lastCall.before

\* C9: the caller of importTrainingData can tell an import of unparsable text
\* from a successful one by the call's outcome (an exception or the value
\* returned); a failed import is reported to it.
C9_MalformedImportReported ==
  (lastCall.op = "importTrainingData" /\ lastCall.data \in MalformedTexts)
    => (lastCall.threw \/ lastCall.returned # Undefined)

(***************************************************************************)
(* EnhancedOCREngine.clusterBasedCorrection.  An EnhancedOCRResult is a    *)
(* record of char, confidence, bbox, segmentationScore, mlConfidence and   *)
(* clusterId; the two scores and mlConfidence are kept in hundredths, and  *)
(* a clusterId that is undefined is NoCluster.                             *)
(***************************************************************************)
NoCluster == 0 - 1

\* clusters.get(clusterId): the results of one cluster, in result order
clusterMembers(results, clusterId) ==
  SelectSeq(results, LAMBDA r : r.clusterId = clusterId)

\* maxCount > cluster.length / 2
hasMajorityOrHalf(maxCount, size) == 2 * maxCount >= size

hasMajority(maxCount, size) == 2 * maxCount > size

\* what the loops over one cluster leave of one of its items
correctItem(item, cluster) ==
  LET charCounts == countVotes([i \in 1..Len(cluster) |-> cluster[i].char], <<>>)
      maxCount == MaxOfSeq([i \in 1..Len(charCounts) |-> charCounts[i].count])
      mostCommonChar == firstMaxLabel(charCounts, 0, "")
  IN  IF Len(cluster) < 2 THEN item
      ELSE IF /\ hasMajority(maxCount, Len(cluster))
              /\ item.char # mostCommonChar
              /\ item.confidence < 50
        THEN [item EXCEPT !.char = mostCommonChar,
                          !.mlConfidence = Max2(item.mlConfidence, 60)]
        ELSE item

clusterBasedCorrection(results) ==
  [i \in 1..Len(results) |->
     IF results[i].clusterId = NoCluster THEN results[i]
     ELSE correctItem(results[i], clusterMembers(results, results[i].clusterId))]

(***************************************************************************)
(* Driver: clusterBasedCorrection on bounded result lists                  *)
(***************************************************************************)
MaxClusterItems == 3

\* undefined, and the ids of two clusters
ClusterIds == {NoCluster, 0, 1}

UnitBox == [x |-> 0, y |-> 0, width |-> 1, height |-> 1]

ClusterItems ==
  [char : {"A", "B"}, confidence : {30, 50}, bbox : {UnitBox},
   segmentationScore : {50}, mlConfidence : {30, 70},
   clusterId : ClusterIds]

InitCluster ==
  /\ pc = "ready"
  /\ arg \in UNION {[1..n -> ClusterItems] : n \in 0..MaxClusterItems}
  /\ ret = None
  /\ EngineConstructed

ClusterBasedCorrectionCall ==
  /\ pc = "ready"
  /\ ret' = clusterBasedCorrection(arg)
  /\ pc' = "done"
  /\ UNCHANGED <<arg, engineVars>>

NextCluster == ClusterBasedCorrectionCall

SpecCluster == InitCluster /\ [][NextCluster]_vars

\* the candidates that share candidate i's cluster (i among them)
ClusterOf(results, i) ==
  {j \in 1..Len(results) : results[j].clusterId = results[i].clusterId}

\* c is held by strictly more than half of the candidates of i's cluster
StrictMajority(results, i, c) ==
  2 * Cardinality({j \in ClusterOf(results, i) : results[j].char = c})
    > Cardinality(ClusterOf(results, i))

\* C7: cluster-majority correction changes a candidate's character only if its
\* cluster has a character held by strictly more than half of its members and
\* the candidate's OCR confidence is below 50; the character then is that
\* majority value and mlConfidence is at least 0.6.  A candidate with
\* confidence >= 50, one in a cluster without a strict majority and one alone
\* in its cluster keep their character.
C7_ClusterMajorityCorrection ==
  pc = "done" =>
    /\ Len(ret) = Len(arg)
    /\ \A i \in 1..Len(arg) :
         /\ ret[i].char # arg[i].char =>
              /\ arg[i].clusterId # NoCluster
              /\ arg[i].confidence < 50
              /\ StrictMajority(arg, i, ret[i].char)
              /\ ret[i].mlConfidence >= 60
         /\ arg[i].confidence >= 50 => ret[i].char = arg[i].char
         /\ (\A c \in {"A", "B"} : ~StrictMajority(arg, i, c)) => ret[i].char = arg[i].char
         /\ ClusterOf(arg, i) = {i} => ret[i].char = arg[i].char

\* two "A" in one cluster with a low-confidence "B", and the "B" was relabelled
C7_Witness ==
  /\ pc = "done"
  /\ Len(arg) = 3
  /\ \A i \in 1..3 : arg[i].clusterId = 0
  /\ arg[1].char = "A" /\ arg[2].char = "A" /\ arg[3].char = "B"
  /\ arg[3].confidence = 30 /\ arg[3].mlConfidence = 30
  /\ ret[3].char = "A" /\ ret[3].mlConfidence = 60

\* a "B" alone in its cluster beside two low-confidence "A" of another cluster
C7_WitnessDistinctB ==
  /\ pc = "done"
  /\ Len(arg) = 3
  /\ arg[1].clusterId = 0 /\ arg[2].clusterId = 0 /\ arg[3].clusterId = 1
  /\ arg[1].char = "A" /\ arg[2].char = "A" /\ arg[3].char = "B"
  /\ \A i \in 1..3 : arg[i].confidence = 30
  /\ ret[3].char = "B"

(***************************************************************************)
(* recognize: the image, and what the base OCR engine reports for it       *)
(*                                                                         *)
(* The image is a line of two glyphs on paper: a block of ink, one column  *)
(* of smear (dark gray) and a second block of ink, above one row of paper. *)
(* Bounding boxes are whole pixels, as Tesseract reports them, so that     *)
(* Math.ceil leaves them alone and drawImage copies without scaling.       *)
(***************************************************************************)
Box(x, y, width, height) == [x |-> x, y |-> y, width |-> width, height |-> height]

PageBox == Box(0, 0, 12, 6)

Smear == Gray(40)

Page ==
  ImageData(PageBox.width, PageBox.height,
    [p \in 1..(PageBox.width * PageBox.height) |->
       IF (p - 1) \div PageBox.width = PageBox.height - 1 THEN Gray(255)
       ELSE IF (p - 1) % PageBox.width = 5 THEN Smear
       ELSE Gray(0)])

\* the first glyph with the smear, the whole line, the second glyph
GlyphBox == Box(0, 0, 6, 6)

LineBox == PageBox

SolidBox == Box(6, 0, 6, 6)

OcrBoxes == {GlyphBox, LineBox, SolidBox}

\* canvas.getContext('2d').drawImage(imageSource, x, y, width, height, 0, 0,
\* width, height) on a new width x height canvas, then getImageData of all of
\* it: the pixels of the box, transparent black where the box leaves the image
localImageData(imageSource, bbox) ==
  [width |-> bbox.width, height |-> bbox.height,
   data |-> [k \in 1..(4 * bbox.width * bbox.height) |->
               LET dst == (k - 1) \div 4
                   sx == bbox.x + (dst % bbox.width)
                   sy == bbox.y + (dst \div bbox.width)
               IN  IF sx < 0 \/ sx >= imageSource.width
                      \/ sy < 0 \/ sy >= imageSource.height
                     THEN 0
                     ELSE At(imageSource.data, 4 * (sy * imageSource.width + sx)
                                               + ((k - 1) % 4))]]

\* the symbols autoRecognize resolves with: { id, char, confidence, bbox }
\* (imageData, source and category are carried along and never read here)
OcrSymbols ==
  { [char |-> "A", confidence |-> 30, bbox |-> GlyphBox],
    [char |-> "B", confidence |-> 80, bbox |-> LineBox],
    [char |-> "A", confidence |-> 35, bbox |-> SolidBox] }

MaxCandidates == 2

\* symbols.map((symbol, index) => ({ id: `ocr_${Date.now()}_${index}`, ... })):
\* the ids of one batch are distinct, and the index stands for the id
OcrOutcomes ==
  UNION { { [i \in 1..n |->
               [id |-> i, char |-> symbols[i].char,
                confidence |-> symbols[i].confidence,
                bbox |-> symbols[i].bbox]] :
            symbols \in [1..n -> OcrSymbols] } :
          n \in 0..MaxCandidates }

(***************************************************************************)
(* performSegmentation                                                     *)
(*                                                                         *)
(* document.createElement('canvas').getContext('2d') may return null.  A   *)
(* run has the surfaces of at most one place unavailable: the canvas of    *)
(* the whole image ("main"), the local canvas of candidate index           *)
(* ("local"), the canvases of its components inside                        *)
(* connectedComponentAnalysis ("component"), or, in applyMachineLearning,  *)
(* the canvas of result index ("feature").                                 *)
(***************************************************************************)
NoFailure == [kind |-> "none", index |-> 0]

Unavailable(kind, index) == [kind |-> kind, index |-> index]

\* CharSegmentation.connectedComponentAnalysis(CharSegmentation.otsuBinarize(
\* localImageData)) for each box the OCR step can report
SegmentTable ==
  [bbox \in OcrBoxes |->
     [ctxOk \in BOOLEAN |->
        connectedComponentAnalysis(otsuBinarize(localImageData(Page, bbox)), ctxOk)]]

isLargerOrEqual(current, best) ==
  current.width * current.height >= best.width * best.height

\* currentArea > bestArea
isLarger(current, best) ==
  current.width * current.height > best.width * best.height

\* segments.reduce((best, current) => currentArea > bestArea ? current : best)
RECURSIVE largestSegment(_, _, _)
largestSegment(segments, k, best) ==
  IF k > Len(segments) THEN best
  ELSE largestSegment(segments, k + 1,
         IF isLarger(segments[k], best) THEN segments[k] ELSE best)

\* (ratioScore + aspectScore) / 2 in hundredths: each score is 1 or 0.5
calculateSegmentationScore(segment) ==
  LET data == segment.imageData.data
      pixels == Len(data) \div 4
      blackPixels == Cardinality({p \in 0..(pixels - 1) : At(data, 4 * p) < 128})
      ratioScore == IF 10 * blackPixels >= pixels /\ 10 * blackPixels <= 4 * pixels
                      THEN 100 ELSE 50
      aspectScore == IF 10 * segment.width >= 3 * segment.height
                        /\ segment.width <= 3 * segment.height
                       THEN 100 ELSE 50
  IN  (ratioScore + aspectScore) \div 2

\* { ...baseResult, bbox, segmentationScore, mlConfidence: confidence / 100 };
\* clusterId is left undefined
Enhanced(baseResult, bbox, segmentationScore) ==
  [id |-> baseResult.id, char |-> baseResult.char,
   confidence |-> baseResult.confidence, bbox |-> bbox,
   segmentationScore |-> segmentationScore,
   mlConfidence |-> baseResult.confidence, clusterId |-> NoCluster]

\* what the loop body pushes for one base result whose local canvas has a context
segmentOne(baseResult, segments) ==
  IF Len(segments) > 1
    THEN LET bestSegment == largestSegment(segments, 2, segments[1])
         IN  Enhanced(baseResult,
                      Box(baseResult.bbox.x + bestSegment.x,
                          baseResult.bbox.y + bestSegment.y,
                          bestSegment.width, bestSegment.height),
                      calculateSegmentationScore(bestSegment))
    ELSE IF Len(segments) = 1
      THEN Enhanced(baseResult, baseResult.bbox, 80)
      ELSE Enhanced(baseResult, baseResult.bbox, 50)

\* the loop over baseResults from index i on: without a local context nothing
\* is pushed for the candidate
RECURSIVE segmentLoop(_, _, _)
segmentLoop(baseResults, failed, i) ==
  IF i > Len(baseResults) THEN <<>>
  ELSE (IF failed = Unavailable("local", i)
          THEN <<>>
          ELSE <<segmentOne(baseResults[i],
                   SegmentTable[baseResults[i].bbox]
                               [failed # Unavailable("component", i)])>>)
       \o segmentLoop(baseResults, failed, i + 1)

\* if (!ctx) return results, before any candidate was looked at
performSegmentation(baseResults, failed) ==
  IF failed = Unavailable("main", 0) THEN <<>>
  ELSE segmentLoop(baseResults, failed, 1)

\* baseResults.map(r => ({ ...r, segmentationScore: 0.5, mlConfidence: ... }))
withoutSegmentation(baseResults) ==
  [i \in 1..Len(baseResults) |-> Enhanced(baseResults[i], baseResults[i].bbox, 50)]

(***************************************************************************)
(* applyMachineLearning                                                    *)
(***************************************************************************)
\* the boxes a result of the segmentation step can have
ResultBoxes ==
  OcrBoxes \cup {performSegmentation(o, NoFailure)[1].bbox :
                   o \in {b \in OcrOutcomes : Len(b) = 1}}

\* FeatureExtractor.extractAllFeatures of the pixels of each such box
FeatureTable ==
  [bbox \in ResultBoxes |-> extractAllFeatures(localImageData(Page, bbox))]

\* features: one vector per result whose canvas has a context, in result
\* order; a result without one leaves no gap, the later vectors move up
RECURSIVE featureRows(_, _, _)
featureRows(results, failed, i) ==
  IF i > Len(results) THEN <<>>
  ELSE (IF failed = Unavailable("feature", i)
          THEN <<>>
          ELSE <<FeatureTable[results[i].bbox]>>)
       \o featureRows(results, failed, i + 1)

\* KMeans.initializeCentroids: euclideanDistance(point, centroid) runs over
\* point.length, so it is NaN for a point longer than the centroid; then
\* sumDistances is NaN, no index satisfies random <= 0 and the while loop
\* over centroids.length < k never ends.  The first centroid is any point.
kmeansMayHang(k, features) ==
  /\ k >= 2
  /\ \E i, j \in 1..Len(features) : Len(features[i]) < Len(features[j])

\* this.kmeans.predictBatch(features) after fit: one cluster index below k
\* per vector.  Which one depends on Math.random; every assignment is kept.
kmeansClusterings(k, features) == [1..Len(features) -> 0..(k - 1)]

\* trainingData[i] as the FeatureVector { features, label } the classifiers read
memberOf(object, k) ==
  object.v[CHOOSE i \in 1..Len(object.v) : object.v[i].k = k].val

hasMember(object, k) == \E i \in 1..Len(object.v) : object.v[i].k = k

IsSample(value) ==
  /\ value.t = "object"
  /\ hasMember(value, "features")
  /\ hasMember(value, "label")
  /\ memberOf(value, "features").t = "array"
  /\ \A i \in 1..Len(memberOf(value, "features").v) :
       memberOf(value, "features").v[i].t = "number"
  /\ memberOf(value, "label").t = "string"

IsSampleList(value) ==
  /\ value.t = "array"
  /\ \A i \in 1..Len(value.v) : IsSample(value.v[i])

samplesOf(value) ==
  [i \in 1..Len(value.v) |->
     [features |-> [j \in 1..Len(memberOf(value.v[i], "features").v) |->
                      memberOf(value.v[i], "features").v[j].v],
      label |-> memberOf(value.v[i], "label").v]]

\* Math.sqrt(sum) of euclideanDistance, in thousandths like the features
\* (rounded down), or NaN: b[i] is undefined from b.length on
NaN == 0 - 1

euclideanDistance(a, b) ==
  IF Len(a) > Len(b) THEN NaN
  ELSE isqrtSearch(squaredDistance(a, b), 0, 46340)

\* 1 / (neighbor.distance + 0.001), in units of 1e-5
knnWeight(distance) == 100000000 \div (distance + 1)

\* the entries of distances at the indices of chosen, in order
RECURSIVE entriesAt(_, _, _)
entriesAt(distances, chosen, i) ==
  IF i > Len(distances) THEN <<>>
  ELSE (IF i \in chosen THEN <<distances[i]>> ELSE <<>>)
       \o entriesAt(distances, chosen, i + 1)

\* votes: label -> summed weight, in insertion order
RECURSIVE weighVotes(_, _)
weighVotes(kNearest, votes) ==
  IF kNearest = <<>> THEN votes
  ELSE LET label == Head(kNearest).label
           weight == knnWeight(Head(kNearest).distance)
           known == {i \in 1..Len(votes) : votes[i].label = label}
       IN  weighVotes(Tail(kNearest),
             IF known = {}
               THEN Append(votes, [label |-> label, count |-> weight])
               ELSE [i \in 1..Len(votes) |->
                       IF i \in known
                         THEN [votes[i] EXCEPT !.count = votes[i].count + weight]
                         ELSE votes[i]])

\* { label, confidence } of predictWithConfidence for these k nearest:
\* passes says label && confidence > 0.6, confidence is in hundredths
\* (rounded down).  One NaN distance makes totalWeight NaN and confidence 0.
knnOutcome(kNearest) ==
  IF kNearest = <<>> \/ \E i \in 1..Len(kNearest) : kNearest[i].distance = NaN
    THEN [passes |-> FALSE, confidence |-> 0]
    ELSE LET votes == weighVotes(kNearest, <<>>)
             totalWeight == SumSeq([i \in 1..Len(votes) |-> votes[i].count])
             maxWeight == MaxOfSeq([i \in 1..Len(votes) |-> votes[i].count])
         IN  [passes |-> 5 * maxWeight > 3 * totalWeight,
              confidence |-> ((maxWeight \div 100) * 100) \div (totalWeight \div 100)]

\* predictWithConfidence(features) on fitted samples.  With a NaN among the
\* distances the comparator a.distance - b.distance is not an order and
\* what sort leaves in front is the implementation's choice: every choice
\* of k entries is kept.
knnOutcomes(k, samples, features) ==
  LET distances ==
        SelectSeq([i \in 1..Len(samples) |->
                     [label |-> samples[i].label,
                      distance |-> euclideanDistance(features, samples[i].features)]],
                  LAMBDA d : d.label # "")
      size == IF k < 0 THEN Max2(0, Len(distances) + k) ELSE Min2(k, Len(distances))
  IN  IF \A i \in 1..Len(distances) : distances[i].distance # NaN
        THEN {knnOutcome(SubSeq(knnSort(distances), 1, size))}
        ELSE {knnOutcome(entriesAt(distances, chosen, 1)) :
                chosen \in {c \in SUBSET (1..Len(distances)) : Cardinality(c) = size}}

\* if (this.options.useKMeans && features.length > 0): each result gets the
\* cluster of the vector at its index, undefined past the vectors pushed
replacedBy(mlConfidence, confidence) == confidence

\* Math.max(results[i].mlConfidence, confidence)
raisedTo(mlConfidence, confidence) == Max2(mlConfidence, confidence)

kmeansBlock(results, features, clusters) ==
  IF options.useKMeans /\ Len(features) > 0
    THEN [i \in 1..Len(results) |->
            [results[i] EXCEPT
               !.clusterId = IF i <= Len(features) THEN clusters[i] ELSE NoCluster]]
    ELSE results

\* if (this.options.useKNN && this.trainingData.length > 0).  features[i] is
\* undefined past the vectors pushed, and euclideanDistance(undefined, ...)
\* throws a TypeError before any result is touched.
knnBlock(results, features, knnChoice) ==
  IF options.useKNN /\ Len(trainingData.v) > 0
    THEN IF Len(features) < Len(results)
           THEN [threw |-> TRUE, results |-> results]
           ELSE [threw |-> FALSE,
                 results |-> [i \in 1..Len(results) |->
                   IF knnChoice[i].passes
                     THEN [results[i] EXCEPT
                             !.mlConfidence = raisedTo(@, knnChoice[i].confidence)]
                     ELSE results[i]]]
    ELSE [threw |-> FALSE, results |-> results]

\* this.decisionTree.fit(this.trainingData) and the loop of predict: at an
\* inner node traverseTree reads features[node.featureIndex] and throws a
\* TypeError on undefined; a leaf answers without reading
decisionTreeBlock(results, features, tree) ==
  IF Len(features) < Len(results) /\ tree.type = "internal"
    THEN [threw |-> TRUE, results |-> results, decisionTree |-> [tree |-> tree]]
    ELSE [threw |-> FALSE,
          results |-> [i \in 1..Len(results) |->
            IF treePredict(tree, IF i <= Len(features) THEN features[i] ELSE <<>>)
                 # Null
              THEN [results[i] EXCEPT !.mlConfidence = raisedTo(@, 70)]
              ELSE results[i]],
          decisionTree |-> [tree |-> tree]]

\* if (this.options.useDecisionTree && this.trainingData.length > 0), unless
\* the KNN block threw
decisionTreeStep(classified, features) ==
  IF ~classified.threw /\ options.useDecisionTree /\ Len(trainingData.v) > 0
    THEN decisionTreeBlock(classified.results, features,
                           treeFit(samplesOf(trainingData)))
    ELSE [threw |-> classified.threw, results |-> classified.results,
          decisionTree |-> decisionTree]

\* what the call leaves: threw says it rejected; kmeans, knn and decisionTree
\* are the fields after it
machineLearned(features, decided) ==
  [hung |-> FALSE, threw |-> decided.threw, results |-> decided.results,
   kmeans |-> IF options.useKMeans /\ Len(features) > 0
                THEN [k |-> Min2(options.kMeansClusters, Len(features)),
                      fitted |-> TRUE]
                ELSE kmeans,
   knn |-> IF options.useKNN /\ Len(trainingData.v) > 0
             THEN [knn EXCEPT !.trainingData = trainingData, !.shared = TRUE]
             ELSE knn,
   decisionTree |-> decided.decisionTree]

\* the three classifier blocks on results, given the outcome of Math.random
\* in k-means (clusters) and of sort in KNN (knnChoice, one per result)
applyMachineLearning(results, features, clusters, knnChoice) ==
  machineLearned(features,
    decisionTreeStep(
      knnBlock(kmeansBlock(results, features, clusters), features, knnChoice),
      features))

(***************************************************************************)
(* postProcess                                                             *)
(***************************************************************************)
\* the comparator of the reading-order sort
readingOrder(a, b) ==
  IF a.bbox.y - b.bbox.y > 20 \/ b.bbox.y - a.bbox.y > 20
    THEN a.bbox.y - b.bbox.y
    ELSE a.bbox.x - b.bbox.x

\* [...results].sort(...): stable; the sorted array holds the same objects,
\* here the indices into results
RECURSIVE readingInsert(_, _, _)
readingInsert(results, sorted, i) ==
  IF sorted = <<>> THEN <<i>>
  ELSE IF readingOrder(results[Head(sorted)], results[i]) <= 0
    THEN <<Head(sorted)>> \o readingInsert(results, Tail(sorted), i)
    ELSE <<i>> \o sorted

RECURSIVE readingSort(_, _)
readingSort(results, n) ==
  IF n = 0 THEN <<>>
  ELSE readingInsert(results, readingSort(results, n - 1), n)

contextPenaltyUnclamped(confidence) == confidence - 20

\* Math.max(0, curr.confidence - 20)
contextPenalty(confidence) == Max2(0, confidence - 20)

\* for (let i = 1; i < sorted.length; i++): prev is read after it was lowered
RECURSIVE contextLoop(_, _, _)
contextLoop(results, sorted, i) ==
  IF i > Len(sorted) THEN results
  ELSE LET prev == results[sorted[i - 1]]
           curr == results[sorted[i]]
       IN  contextLoop(
             IF prev.char = curr.char /\ prev.confidence < 40 /\ curr.confidence < 40
               THEN [results EXCEPT
                       ![sorted[i]].confidence = contextPenalty(curr.confidence)]
               ELSE results,
             sorted, i + 1)

contextBasedCorrection(results) ==
  contextLoop(results, readingSort(results, Len(results)), 2)

\* Math.round(confidence * 0.4 + segmentationScore * 100 * 0.3
\*            + mlConfidence * 100 * 0.3): on whole confidences and scores
\* in hundredths the double sum rounds as the exact sum does
combinedConfidenceTruncated(result) ==
  (40 * result.confidence + 30 * result.segmentationScore
     + 30 * result.mlConfidence) \div 100

combinedConfidence(result) ==
  (40 * result.confidence + 30 * result.segmentationScore
     + 30 * result.mlConfidence + 50) \div 100

\* steps 1 and 2 of postProcess: the two correction passes
correctionPasses(results) ==
  contextBasedCorrection(
    IF options.useKMeans THEN clusterBasedCorrection(results) ELSE results)

\* step 3 of postProcess, on the results the passes have left
combined(corrected) ==
  [i \in 1..Len(corrected) |->
     [corrected[i] EXCEPT !.confidence = combinedConfidence(corrected[i])]]

postProcess(results) == combined(correctionPasses(results))

(***************************************************************************)
(* recognize, one action per stretch between two awaits.  run.stage is     *)
(* where the call in flight stands: "ocr" while autoRecognize is awaited,  *)
(* "segmented" while the promise of performSegmentation is, "learned"      *)
(* while that of applyMachineLearning is, and "hung" inside a loop that    *)
(* never ends.  lastCall of a settled call holds what autoRecognize had    *)
(* resolved with (baseResults), the surface that was unavailable (failed), *)
(* whether the promise rejected (threw) and the array it resolved with     *)
(* (returned).                                                             *)
(***************************************************************************)
Settled(baseResults, failed, threw, returned) ==
  [op |-> "recognize", threw |-> threw, returned |-> returned,
   baseResults |-> baseResults, failed |-> failed]

\* the caller has its promise and nothing of the call's outcome yet
RecognizeCall ==
  /\ run.stage = "idle"
  /\ run' = [stage |-> "ocr"]
  /\ lastCall' = NoCall
  /\ UNCHANGED <<pc, arg, ret, options, kmeans, knn, decisionTree, trainingData>>

\* the places of performSegmentation whose surface can be unavailable
segmentationSurfaces(baseResults) ==
  {NoFailure, Unavailable("main", 0)}
    \cup {Unavailable(kind, i) :
            kind \in {"local", "component"}, i \in 1..Len(baseResults)}

\* autoRecognize resolves and, with useSegmentation, performSegmentation runs
RecognizeSegment ==
  /\ run.stage = "ocr"
  /\ options.useSegmentation
  /\ \E baseResults \in OcrOutcomes :
       \E failed \in segmentationSurfaces(baseResults) :
         run' = [stage |-> "segmented", baseResults |-> baseResults,
                 failed |-> failed,
                 results |-> performSegmentation(baseResults, failed)]
  /\ UNCHANGED <<pc, arg, ret, options, kmeans, knn, decisionTree, trainingData,
                 lastCall>>

\* results as step 3 finds it: after the await of performSegmentation, or,
\* without useSegmentation, in the stretch in which autoRecognize resolved
beforeLearning ==
  IF run.stage = "segmented"
    THEN {[baseResults |-> run.baseResults, failed |-> run.failed,
           results |-> run.results]}
    ELSE IF run.stage = "ocr" /\ ~options.useSegmentation
      THEN {[baseResults |-> b, failed |-> NoFailure,
             results |-> withoutSegmentation(b)] : b \in OcrOutcomes}
      ELSE {}

\* the canvases of applyMachineLearning, if no surface was unavailable before
featureSurfaces(at) ==
  IF at.failed = NoFailure
    THEN {NoFailure} \cup {Unavailable("feature", i) : i \in 1..Len(at.results)}
    ELSE {at.failed}

\* what applyMachineLearning can come to on the results of at, failed being
\* the surface that is unavailable: it runs to its end, throws (threw) or
\* never returns (hung); kmeans, knn and decisionTree are the fields as it
\* leaves them.  With a trainingData that is not a list of samples the
\* classifier blocks are skipped or throw, by what the value is: both are
\* kept.
learnOutcomes(at, failed) ==
  LET features == featureRows(at.results, failed, 1)
      n == Len(at.results)
      k == Min2(options.kMeansClusters, Len(features))
      clustering == options.useKMeans /\ Len(features) > 0
      listed == IsSampleList(trainingData)
      clusterings == IF clustering THEN kmeansClusterings(k, features) ELSE {<<>>}
      knnChoices ==
        IF listed /\ Len(features) = n
          THEN [i \in 1..n |->
                  knnOutcomes(knn.k, samplesOf(trainingData), features[i])]
          ELSE [i \in 1..n |-> {[passes |-> FALSE, confidence |-> 0]}]
      knnChoiceSet ==
        {c \in [1..n -> UNION {knnChoices[i] : i \in 1..n}] :
           \A i \in 1..n : c[i] \in knnChoices[i]}
      hung == [hung |-> TRUE, threw |-> FALSE, results |-> at.results,
               kmeans |-> kmeans, knn |-> knn, decisionTree |-> decisionTree]
      foreign(threw) ==
        [hung |-> FALSE, threw |-> threw, results |-> at.results,
         kmeans |-> IF clustering THEN [k |-> k, fitted |-> TRUE] ELSE kmeans,
         knn |-> knn, decisionTree |-> decisionTree]
  IN  (IF clustering /\ kmeansMayHang(k, features) THEN {hung} ELSE {})
        \cup (IF listed
                THEN {applyMachineLearning(at.results, features, clusters, knnChoice) :
                        clusters \in clusterings, knnChoice \in knnChoiceSet}
                ELSE {foreign(threw) : threw \in BOOLEAN})

RecognizeLearn ==
  \E at \in beforeLearning :
    \E failed \in featureSurfaces(at) :
      /\ Len(at.results) > 0
      /\ \E learned \in learnOutcomes(at, failed) :
           /\ kmeans' = learned.kmeans
           /\ knn' = learned.knn
           /\ decisionTree' = learned.decisionTree
           /\ run' = IF learned.hung THEN [stage |-> "hung"]
                     ELSE IF learned.threw THEN Idle
                     ELSE [stage |-> "learned", baseResults |-> at.baseResults,
                           failed |-> failed, results |-> learned.results]
           /\ lastCall' = IF ~learned.hung /\ learned.threw
                            THEN Settled(at.baseResults, failed, TRUE, Undefined)
                            ELSE lastCall
      /\ UNCHANGED <<pc, arg, ret, options, trainingData>>

\* results as step 4 finds it: after the await of applyMachineLearning, or
\* with no result to learn from
beforeReturn ==
  IF run.stage = "learned"
    THEN {[baseResults |-> run.baseResults, failed |-> run.failed,
           results |-> run.results]}
    ELSE {at \in beforeLearning : Len(at.results) = 0}

\* postProcess and return results
RecognizeReturn ==
  /\ \E at \in beforeReturn :
       lastCall' = Settled(at.baseResults, at.failed, FALSE,
                           postProcess(at.results))
  /\ run' = Idle
  /\ UNCHANGED <<pc, arg, ret, options, kmeans, knn, decisionTree, trainingData>>

(***************************************************************************)
(* recognize on engines of several options, with training between its      *)
(* steps                                                                   *)
(***************************************************************************)
\* the Partial<OCROptions> the engine is constructed with
ConstructorOptions ==
  { NoOptions,
    [useSegmentation |-> FALSE],
    [kMeansClusters |-> 1],
    [useKMeans |-> FALSE, useKNN |-> FALSE, useDecisionTree |-> FALSE] }

MaxRecognizeTraining == 1

\* the first glyph of the page, cut out by its box
RecognizeTrainingImages == {localImageData(Page, GlyphBox)}

\* labelled "A" or not labelled
RecognizeTrainingSamples == labelledSamples(RecognizeTrainingImages, {"A", ""})

RecognizeTrain == AddTrainingSampleOf(RecognizeTrainingSamples, MaxRecognizeTraining)

InitRecognize ==
  /\ pc = None
  /\ arg = None
  /\ ret = None
  /\ \E partial \in ConstructorOptions : Constructed(partial)

NextRecognize ==
  \/ RecognizeCall
  \/ RecognizeSegment
  \/ RecognizeLearn
  \/ RecognizeReturn
  \/ RecognizeTrain

SpecRecognize == InitRecognize /\ [][NextRecognize]_vars

(***************************************************************************)
(* setOptions, and the shared engine: the calls of the panel and of the    *)
(* training interface arrive between the steps of a recognize call         *)
(***************************************************************************)
\* what setOptions leaves in the fields: the options merged, a new KMeans
\* and a new KNN; `void this.decisionTree` evaluates the field and drops it
setOptions(partial) ==
  [options |-> Spread(options, partial),
   kmeans |-> NewKMeans(Spread(options, partial).kMeansClusters),
   knn |-> NewKNN(Spread(options, partial).knnNeighbors),
   decisionTree |-> decisionTree]

\* the Partial<OCROptions> of updateOption: one key and its value
PanelOptions ==
  { [kMeansClusters |-> 1], [knnNeighbors |-> 3], [useSegmentation |-> FALSE] }

SetOptions ==
  /\ run.stage # "hung"
  /\ \E partial \in PanelOptions :
       /\ options' = setOptions(partial).options
       /\ kmeans' = setOptions(partial).kmeans
       /\ knn' = setOptions(partial).knn
       /\ decisionTree' = setOptions(partial).decisionTree
       /\ lastCall' = ReturnedUndefined("setOptions", options)
  /\ UNCHANGED <<pc, arg, ret, trainingData, run>>

NextShared ==
  \/ RecognizeCall
  \/ RecognizeSegment
  \/ RecognizeLearn
  \/ RecognizeReturn
  \/ RecognizeTrain
  \/ ClearTrainingData
  \/ SetOptions

SpecShared == InitRecognize /\ [][NextShared]_vars

\* C10: when the drawing surface needed for a candidate cannot be acquired
\* during segmentation refinement (the candidate's local canvas, or the
\* canvases of its components), recognize does not reject and its output
\* holds every candidate autoRecognize reported, the affected one with its
\* original box.
C10_SurfaceFailureKeepsCandidate ==
  (lastCall.op = "recognize" /\ lastCall.failed.kind \in {"local", "component"}) =>
    /\ ~lastCall.threw
    /\ \A i \in 1..Len(lastCall.baseResults) :
         \E j \in 1..Len(lastCall.returned) :
           /\ lastCall.returned[j].id = lastCall.baseResults[i].id
           /\ i = lastCall.failed.index =>
                lastCall.returned[j].bbox = lastCall.baseResults[i].bbox

\* C11: recognize returns exactly one result for each candidate that
\* autoRecognize reported, in the order of autoRecognize and with the same
\* ids: nothing between the OCR step and the return adds, drops or reorders
\* a candidate.
C11_OneResultPerCandidate ==
  (lastCall.op = "recognize" /\ ~lastCall.threw) =>
    /\ Len(lastCall.returned) = Len(lastCall.baseResults)
    /\ \A i \in 1..Len(lastCall.baseResults) :
         lastCall.returned[i].id = lastCall.baseResults[i].id

\* C12: once setOptions has changed kMeansClusters or knnNeighbors, and
\* until a recognize call fits the models again, the engine holds no fitted
\* model: no k-means centroids, no k-NN samples and no decision tree.
C12_SetOptionsDiscardsModels ==
  ( /\ lastCall.op = "setOptions"
    /\ run.stage = "idle"
    /\ \/ lastCall.before.kMeansClusters # options.kMeansClusters
       \/ lastCall.before.knnNeighbors # options.knnNeighbors ) =>
    /\ ~kmeans.fitted
    /\ knn.trainingData = JArr(<<>>)
    /\ decisionTree.tree = NullTree

\* the part of C12 the code keeps: KMeans and KNN are new
C12_KMeansAndKnnDiscarded ==
  ( /\ lastCall.op = "setOptions"
    /\ run.stage = "idle" ) =>
    /\ ~kmeans.fitted
    /\ knn.trainingData = JArr(<<>>)

(***************************************************************************)
(* Driver: postProcess and its correction passes on bounded result lists   *)
(* of one cluster, laid out on two rows                                    *)
(***************************************************************************)
MaxPostItems == 3

\* two places on the first row and one on a row more than 20 below
PostPlaces == {<<0, 0>>, <<10, 0>>, <<0, 30>>}

PostItems ==
  {[char |-> char, confidence |-> confidence,
    bbox |-> Box(place[1], place[2], 1, 1),
    segmentationScore |-> IF place[2] > 0 THEN 100
                          ELSE IF place[1] > 0 THEN 75 ELSE 50,
    mlConfidence |-> confidence, clusterId |-> 0] :
     char \in {"A", "B"}, confidence \in {10, 30, 100}, place \in PostPlaces}

InitPost ==
  /\ pc = "ready"
  /\ arg \in UNION {[1..n -> PostItems] : n \in 0..MaxPostItems}
  /\ ret = None
  /\ EngineConstructed

CorrectionPassesCall ==
  /\ pc = "ready"
  /\ ret' = correctionPasses(arg)
  /\ pc' = "corrected"
  /\ UNCHANGED <<arg, engineVars>>

PostProcessCall ==
  /\ pc = "ready"
  /\ ret' = postProcess(arg)
  /\ pc' = "done"
  /\ UNCHANGED <<arg, engineVars>>

NextPost == CorrectionPassesCall \/ PostProcessCall

SpecPost == InitPost /\ [][NextPost]_vars

\* candidate i is read before candidate j: on a row above (more than 20
\* higher), else further left, else earlier in the list
ReadsBefore(results, i, j) ==
  LET a == results[i].bbox
      b == results[j].bbox
      d == IF a.y - b.y > 20 \/ b.y - a.y > 20 THEN a.y - b.y ELSE a.x - b.x
  IN  d < 0 \/ (d = 0 /\ i < j)

\* the place of candidate i in reading order, from 1
ReadingPlace(results, i) ==
  1 + Cardinality({j \in 1..Len(results) : ReadsBefore(results, j, i)})

\* the confidence of candidate i once every pair before it has been looked at
RECURSIVE Penalised(_, _)
Penalised(results, i) ==
  IF ReadingPlace(results, i) = 1 THEN results[i].confidence
  ELSE LET p == CHOOSE j \in 1..Len(results) :
                  ReadingPlace(results, j) = ReadingPlace(results, i) - 1
       IN  IF /\ results[p].char = results[i].char
              /\ Penalised(results, p) < 40
              /\ results[i].confidence < 40
             THEN IF results[i].confidence >= 20
                    THEN results[i].confidence - 20 ELSE 0
             ELSE results[i].confidence

\* returned, with the confidences the candidates had before postProcess
BeforePasses(returned, given) ==
  [i \in 1..Len(returned) |->
     [returned[i] EXCEPT !.confidence = given[i].confidence]]

\* C13: the confidence postProcess leaves on a candidate is
\* round(0.4 c + 30 s + 30 m), c being its OCR confidence after the two
\* correction passes, s its segmentationScore and m its mlConfidence (here s
\* and m in hundredths); it is a whole number in 0..100.
C13_CombinedConfidence ==
  pc = "done" =>
    /\ Len(ret) = Len(arg)
    /\ \A i \in 1..Len(ret) :
         /\ ret[i].confidence \in 0..100
         /\ LET c == Penalised(BeforePasses(ret, arg), i)
                twice == 2 * (40 * c + 30 * ret[i].segmentationScore
                                + 30 * ret[i].mlConfidence)
            IN  /\ 200 * ret[i].confidence <= twice + 100
                /\ 200 * ret[i].confidence > twice - 100

\* a candidate whose confidence the context pass lowered from 30 to 10 and
\* whose sum lies on a half, 4 + 22.5 + 9 = 35.5, rounded up
C13_Witness ==
  /\ pc = "done"
  /\ \E i \in 1..Len(ret) :
       /\ arg[i].confidence = 30
       /\ Penalised(BeforePasses(ret, arg), i) = 10
       /\ ret[i].segmentationScore = 75
       /\ ret[i].confidence = 36

\* a recognize call has been made and its promise has not settled
InFlight == run.stage \in {"ocr", "segmented", "learned"}

\* C14: on the shared engine neither the options nor the training-sample
\* list change while a recognize call is in flight, whatever the
\* interleaving of recognize with setOptions, addTrainingSample and
\* clearTrainingData: the call works to its end on the options and samples
\* in effect when it started.
C14_NoChangeInFlight ==
  [][InFlight => (options' = options /\ trainingData' = trainingData)]_vars

\* index i lies in the half-open range r
Covers(r, i) == r.start <= i /\ i < r.end

\* h holds g zeros in a row from index s on
ZeroRun(h, s, g) == \A j \in s..(s + g - 1) : At(h, j) = 0

\* what C15 says of every range but its end: the ranges are disjoint and
\* ascending, every positive entry lies in exactly one, each starts at a
\* positive entry that follows a zero or the array start, and none holds
\* minGap zeros in a row
RangesCoverPositives(h, minGap, rs) ==
  /\ RangesAscending(rs)
  /\ \A i \in 0..(Len(h) - 1) :
       At(h, i) > 0 => Cardinality({k \in 1..Len(rs) : Covers(rs[k], i)}) = 1
  /\ \A k \in 1..Len(rs) :
       /\ 0 <= rs[k].start /\ rs[k].start < rs[k].end /\ rs[k].end <= Len(h)
       /\ At(h, rs[k].start) > 0
       /\ rs[k].start = 0 \/ At(h, rs[k].start - 1) = 0
       /\ \A s \in rs[k].start..(rs[k].end - minGap) : ~ZeroRun(h, s, minGap)

\* the range ends on the last index, on zeros that reach the array end
EndsOnTrailingZeros(h, r) ==
  /\ r.end = Len(h) - 1
  /\ At(h, r.end - 1) = 0
  /\ At(h, r.end) = 0

\* C15 as stated: for every histogram and every minGap >= 1 findRanges
\* returns disjoint ascending ranges that hold every positive entry exactly
\* once, each starting at a positive entry after a zero or the array start
\* and ending immediately after a positive entry, none holding minGap zeros
\* in a row; a range open at the array end is closed.
C15_RangesEndAfterPositive ==
  pc = "done" =>
    /\ RangesCoverPositives(arg.projection, arg.minGap, ret)
    /\ \A k \in 1..Len(ret) : At(arg.projection, ret[k].end - 1) > 0

\* C15, amended: as above, but the last range ends after a positive entry
\* or, when fewer than minGap zeros follow its last positive entry up to the
\* array end, on the last index, holding all of these zeros but the last.
C15_RangesEndAfterPositiveOrOnLastIndex ==
  pc = "done" =>
    /\ RangesCoverPositives(arg.projection, arg.minGap, ret)
    /\ \A k \in 1..Len(ret) :
         \/ At(arg.projection, ret[k].end - 1) > 0
         \/ k = Len(ret) /\ EndsOnTrailingZeros(arg.projection, ret[k])

\* a range after a leading zero, closed on the last index over a trailing zero
C15_Witness ==
  /\ pc = "done"
  /\ Len(ret) = 1
  /\ ret[1].start = 1
  /\ EndsOnTrailingZeros(arg.projection, ret[1])

(***************************************************************************)
(* Driver: the body of the loop of performSegmentation on crops that hold  *)
(* a shape on the left and a shape on the right                            *)
(***************************************************************************)
LeftShapes == {"none", "solid", "corner", "broad"}

RightShapes == {"none", "solid", "corner", "wide", "rail"}

\* the left shapes start at column 0: a 5x5 block, its left and bottom edge,
\* a 6x5 block
leftInk(shape, x) ==
  \/ shape = "solid" /\ x <= 4
  \/ shape = "corner" /\ x = 0
  \/ shape = "broad" /\ x <= 5

\* the right shapes start at column 7: a 5x5 block, its left and bottom
\* edge, a 16x5 block, its left and bottom edge
rightInk(shape, x) ==
  \/ shape = "solid" /\ x >= 7 /\ x <= 11
  \/ shape = "corner" /\ x = 7
  \/ shape = "wide" /\ x >= 7
  \/ shape = "rail" /\ x = 7

\* the bottom edge of the two edge shapes
bottomInk(left, right, x) ==
  \/ left = "corner" /\ x <= 4
  \/ right = "corner" /\ x >= 7 /\ x <= 11
  \/ right = "rail" /\ x >= 7

\* a 23x5 crop, black on light gray; its first pixel is nearly black, which
\* puts the threshold of Otsu above black
Crop(left, right) ==
  ImageData(23, 5,
    [p \in 1..(23 * 5) |->
       IF p = 1 THEN Gray(1)
       ELSE IF \/ leftInk(left, (p - 1) % 23)
               \/ rightInk(right, (p - 1) % 23)
               \/ (p - 1) \div 23 = 4 /\ bottomInk(left, right, (p - 1) % 23)
         THEN Gray(0) ELSE Gray(180)])

CropCandidates ==
  {[id |-> 1, char |-> "A", confidence |-> 30, bbox |-> Box(x, y, 23, 5)] :
     x \in {0, 3, 7}, y \in {0, 4}}

InitSegment ==
  /\ pc = "ready"
  /\ arg \in {[baseResult |-> b, localImageData |-> Crop(left, right)] :
                b \in CropCandidates, left \in LeftShapes, right \in RightShapes}
  /\ ret = None
  /\ EngineConstructed

\* the components of the crop and what is pushed for the candidate
segmented(baseResult, segments) ==
  [segments |-> segments, pushed |-> segmentOne(baseResult, segments)]

SegmentCall ==
  /\ pc = "ready"
  /\ ret' = segmented(arg.baseResult,
                connectedComponentAnalysis(otsuBinarize(arg.localImageData), TRUE))
  /\ pc' = "done"
  /\ UNCHANGED <<arg, engineVars>>

NextSegment == SegmentCall

SpecSegment == InitSegment /\ [][NextSegment]_vars

Area(segment) == segment.width * segment.height

\* the pixels of the component's own image that are dark
DarkPixels(segment) ==
  Cardinality({p \in 1..Area(segment) : segment.imageData.data[4 * p - 3] < 128})

\* 1 if between a tenth and four tenths of the component's image is dark
RatioScore(segment) ==
  IF 10 * DarkPixels(segment) >= Area(segment)
     /\ 10 * DarkPixels(segment) <= 4 * Area(segment)
    THEN 100 ELSE 50

\* 1 if the component is at most 3 times as wide as high, or as high as wide
\* (0.3 standing for the third)
AspectScore(segment) ==
  IF 10 * segment.width >= 3 * segment.height
     /\ segment.width <= 3 * segment.height
    THEN 100 ELSE 50

\* the first component among those of largest bounding-box area
FirstLargest(segments) ==
  CHOOSE k \in 1..Len(segments) :
    /\ \A j \in 1..Len(segments) : Area(segments[j]) <= Area(segments[k])
    /\ \A j \in 1..(k - 1) : Area(segments[j]) < Area(segments[k])

\* C16: the score and the box of a candidate follow from the number of
\* components of its crop: with more than one, the box is that of the first
\* component of largest bounding-box area, moved by the origin of the
\* original box, and the score is (ratioScore + aspectScore) / 2, each term
\* 1 or 0.5; with one, the original box and 0.8; with none, the original box
\* and 0.5.  The score is one of 0.5, 0.75, 0.8, 1.
C16_ScoreAndBoxFromComponents ==
  pc = "done" =>
    LET segments == ret.segments
        given == arg.baseResult
        best == segments[FirstLargest(segments)]
    IN  /\ ret.pushed.segmentationScore \in {50, 75, 80, 100}
        /\ ret.pushed.id = given.id
        /\ ret.pushed.char = given.char
        /\ ret.pushed.confidence = given.confidence
        /\ Len(segments) = 0 =>
             ret.pushed.bbox = given.bbox /\ ret.pushed.segmentationScore = 50
        /\ Len(segments) = 1 =>
             ret.pushed.bbox = given.bbox /\ ret.pushed.segmentationScore = 80
        /\ Len(segments) > 1 =>
             /\ ret.pushed.bbox = Box(given.bbox.x + best.x, given.bbox.y + best.y,
                                      best.width, best.height)
             /\ 2 * ret.pushed.segmentationScore
                  = RatioScore(best) + AspectScore(best)

\* two components of equal area, the first one taken: its score is 1
C16_Witness ==
  /\ pc = "done"
  /\ Len(ret.segments) = 2
  /\ Area(ret.segments[1]) = Area(ret.segments[2])
  /\ ret.pushed.bbox.x = arg.baseResult.bbox.x + ret.segments[1].x
  /\ ret.pushed.bbox.x < arg.baseResult.bbox.x + ret.segments[2].x
  /\ ret.pushed.segmentationScore = 100

\* C17: with useKMeans and n >= 1 candidates, applyMachineLearning leaves on
\* every candidate a clusterId in 0..k-1, k = min(kMeansClusters, n) being
\* the number of clusters of the k-means fitted in this run (the id being
\* that of the centroid nearest to the candidate's own feature vector).
C17_ClusterIdPerCandidate ==
  (run.stage = "learned" /\ options.useKMeans /\ Len(run.results) >= 1) =>
    /\ kmeans = [k |-> Min2(options.kMeansClusters, Len(run.results)),
                 fitted |-> TRUE]
    /\ \A i \in 1..Len(run.results) :
         run.results[i].clusterId \in 0..(kmeans.k - 1)

\* the candidate of autoRecognize that the result r was made from
BaseOf(baseResults, r) ==
  baseResults[CHOOSE k \in 1..Len(baseResults) : baseResults[k].id = r.id]

\* C18: mlConfidence starts at ocrConfidence / 100 and a recognize run only
\* raises it: the classifiers leave the character alone, do nothing without
\* training samples, k-NN raises only to a confidence above 0.6, the decision
\* tree raises to at least 0.7 whenever it predicts a label, and a character
\* changed by cluster-majority correction comes with at least 0.6.
C18_MlConfidenceOnlyRaised ==
  /\ run.stage = "learned" =>
       \A i \in 1..Len(run.results) :
         LET r == run.results[i]
             base == BaseOf(run.baseResults, r)
         IN  /\ r.char = base.char
             /\ r.mlConfidence >= base.confidence
             /\ trainingData = JArr(<<>>) => r.mlConfidence = base.confidence
             /\ r.mlConfidence # base.confidence =>
                  /\ r.mlConfidence > 60
                  /\ r.mlConfidence = 70 \/ options.useKNN
             /\ ( /\ options.useDecisionTree
                  /\ decisionTree.tree.type = "leaf"
                  /\ decisionTree.tree.label # "" ) => r.mlConfidence >= 70
  /\ (lastCall.op = "recognize" /\ ~lastCall.threw) =>
       \A j \in 1..Len(lastCall.returned) :
         LET r == lastCall.returned[j]
             base == BaseOf(lastCall.baseResults, r)
         IN  /\ r.mlConfidence >= base.confidence
             /\ r.char # base.char => r.mlConfidence >= 60

\* after the classifiers: a candidate of confidence 80 that the tree labelled
\* and that stays at 0.8, beside one raised from 0.3 by k-NN to above 0.7
C18_Witness ==
  /\ run.stage = "learned"
  /\ decisionTree.tree.type = "leaf"
  /\ decisionTree.tree.label # ""
  /\ \E i, j \in 1..Len(run.results) :
       /\ BaseOf(run.baseResults, run.results[i]).confidence = 80
       /\ run.results[i].mlConfidence = 80
       /\ BaseOf(run.baseResults, run.results[j]).confidence = 30
       /\ run.results[j].mlConfidence > 70

\* C19: context correction walks the candidates in reading order and, for
\* each adjacent pair of equal characters whose confidences, as they stand,
\* are both below 40, lowers the confidence of the second by 20, not below
\* 0.  It changes nothing else, and it works on the characters that
\* cluster-majority correction has left.
C19_ContextPenalty ==
  pc = "corrected" =>
    /\ Len(ret) = Len(arg)
    /\ \A i \in 1..Len(arg) :
         ret[i] = [clusterBasedCorrection(arg)[i] EXCEPT
                     !.confidence = Penalised(clusterBasedCorrection(arg), i)]

\* a candidate relabelled by its cluster and lowered by 20 for the character
\* it got, beside one lowered from 10 to 0
C19_Witness ==
  /\ pc = "corrected"
  /\ \E i, j \in 1..Len(arg) :
       /\ ret[i].char # arg[i].char
       /\ arg[i].confidence = 30
       /\ ret[i].confidence = 10
       /\ arg[j].confidence = 10
       /\ ret[j].confidence = 0

\* the vector extractAllFeatures gives for the pixels under the box of r
FeaturesOf(r) == FeatureTable[r.bbox]

\* C20: in a recognize run the feature vectors given to one k-means
\* instance, and the query vectors and training samples given to one k-NN
\* or decision-tree instance, all have the same length, whatever the boxes
\* of the candidates and the pixels under them.
C20_SameFeatureLength ==
  run.stage = "learned" =>
    /\ \A i, j \in 1..Len(run.results) :
         Len(FeaturesOf(run.results[i])) = Len(FeaturesOf(run.results[j]))
    /\ (knn.shared /\ IsSampleList(trainingData)) =>
         \A i \in 1..Len(run.results) :
           \A k \in 1..Len(trainingData.v) :
             Len(samplesOf(trainingData)[k].features)
               = Len(FeaturesOf(run.results[i]))

(***************************************************************************)
(* FeatureExtractor.extractAllFeatures on its own: small two-level images  *)
(* of every shape, and a few strips longer than one HOG cell.              *)
(***************************************************************************)
MaxFeatureArea == 5

\* one row or one column of HogCellSize + 1 pixels: two HOG cells
StripImages ==
  UNION {{ImageData(d[1], d[2], [p \in 1..(HogCellSize + 1) |-> Gray(255)]),
          ImageData(d[1], d[2], [p \in 1..(HogCellSize + 1) |-> Gray(0)]),
          ImageData(d[1], d[2],
                    [p \in 1..(HogCellSize + 1) |-> Gray(255 * (p % 2))])} :
           d \in {<<HogCellSize + 1, 1>>, <<1, HogCellSize + 1>>}}

FeatureImages == Images(BinaryPalette, MaxFeatureArea) \cup StripImages

InitFeatures ==
  /\ pc = "start"
  /\ arg \in FeatureImages
  /\ ret = <<>>
  /\ EngineConstructed

ExtractAllFeaturesCall ==
  /\ pc = "start"
  /\ pc' = "done"
  /\ ret' = extractAllFeatures(arg)
  /\ UNCHANGED <<arg, options, kmeans, knn, decisionTree, trainingData, run, lastCall>>

NextFeatures == ExtractAllFeaturesCall

SpecFeatures == InitFeatures /\ [][NextFeatures]_vars

\* the image of the given size with no dark pixel
BlankImage(width, height) ==
  ImageData(width, height, [p \in 1..(width * height) |-> Gray(255)])

CeilDiv(n, d) == (n + d - 1) \div d

HogLength(imageData) ==
  HogBins * CeilDiv(imageData.width, HogCellSize)
          * CeilDiv(imageData.height, HogCellSize)

\* C21: the vector extractAllFeatures returns is as long as the one it
\* returns for the blank image of the same width and height, whatever the
\* pixels are; its first 9 * ceil(w / 8) * ceil(h / 8) entries are the HOG
\* features, its last 5 the contour features, and the projection features
\* lie between them.
C21_LengthFromSizeOnly ==
  pc = "done" =>
    /\ Len(ret) = Len(extractAllFeatures(BlankImage(arg.width, arg.height)))
    /\ Len(ret) >= HogLength(arg) + 5
    /\ SubSeq(ret, 1, HogLength(arg)) = extractHOGFeatures(arg)
    /\ SubSeq(ret, Len(ret) - 4, Len(ret)) = extractContourFeatures(arg)
    /\ SubSeq(ret, HogLength(arg) + 1, Len(ret) - 5)
         = extractProjectionFeatures(arg)

\* what does hold for every image: the HOG part, the five contour entries
\* and the order of the three parts
C21_HogAndContourParts ==
  pc = "done" =>
    /\ Len(extractHOGFeatures(arg)) = HogLength(arg)
    /\ Len(extractContourFeatures(arg)) = 5
    /\ SubSeq(ret, 1, HogLength(arg)) = extractHOGFeatures(arg)
    /\ SubSeq(ret, Len(ret) - 4, Len(ret)) = extractContourFeatures(arg)
    /\ SubSeq(ret, HogLength(arg) + 1, Len(ret) - 5)
         = extractProjectionFeatures(arg)

(***************************************************************************)
(* KMeans.fit, step by step.  kmeans.centroids is this.centroids; run      *)
(* holds the locals of the call in flight: in stage "seeding" the          *)
(* centroids of initializeCentroids, in stage "lloyd" iterations and       *)
(* converged.  A coordinate is a whole number of units of 1/60000, so that *)
(* the mean of up to five grid points is exact; NaN is a coordinate or a   *)
(* distance that is not a number.  Math.sqrt is increasing, so distances   *)
(* are compared by their squares.                                          *)
(***************************************************************************)
maxIterations == 100

\* const threshold = 0.001, in units
ConvergenceThreshold == 60

\* the sum of (a[i] - b[i]) ** 2 over a.length; b[i] is undefined from
\* b.length on
kmeansSquaredDistance(a, b) ==
  IF Len(a) > Len(b) \/ (\E i \in 1..Len(a) : a[i] = NaN \/ b[i] = NaN)
    THEN NaN
    ELSE squaredDistance(a, b)

\* distances of initializeCentroids: minDist * minDist per point, where
\* Math.min gives NaN as soon as one distance is NaN
seedDistances(data, centroids) ==
  [p \in 1..Len(data) |->
     LET d(c) == kmeansSquaredDistance(data[p], centroids[c])
     IN  IF \E c \in 1..Len(centroids) : d(c) = NaN THEN NaN
         ELSE MinOfSet({d(c) : c \in 1..Len(centroids)})]

sumDistances(distances) ==
  IF \E i \in 1..Len(distances) : distances[i] = NaN THEN NaN
  ELSE SumSeq(distances)

\* Math.random() * sumDistances: a number from 0 up to, not including,
\* sumDistances (0 when that is 0, NaN when that is NaN).  One value on
\* and one after each partial sum stand for the numbers between.
randomTimes(distances) ==
  LET sum == sumDistances(distances)
      partial(i) == SumSeq(SubSeq(distances, 1, i))
  IN  IF sum = NaN THEN {NaN}
      ELSE {0} \cup {r \in UNION {{partial(i), partial(i) + 1} :
                                   i \in 1..Len(distances)} : r < sum}

\* random < 0 in the place of random <= 0
passedByRandom(random) == random < 0

\* if (random <= 0)
reachedByRandom(random) == random <= 0

\* the for loop over distances from index i on: what it pushes
RECURSIVE seedScan(_, _, _, _)
seedScan(data, distances, i, random) ==
  IF i > Len(distances) THEN <<>>
  ELSE IF reachedByRandom(random - distances[i]) THEN <<data[i]>>
  ELSE seedScan(data, distances, i + 1, random - distances[i])

\* one pass of while (centroids.length < this.k); no comparison with NaN holds
seedPass(data, centroids, random) ==
  centroids \o (IF random = NaN THEN <<>>
                ELSE seedScan(data, seedDistances(data, centroids), 1, random))

\* the index of the first centroid at the least distance; a NaN distance is
\* never below minDist, and nearestIndex starts at 0
findNearestCentroid(point, centroids) ==
  LET d(c) == kmeansSquaredDistance(point, centroids[c])
      finite == {c \in 1..Len(centroids) : d(c) # NaN}
  IN  IF finite = {} THEN 0
      ELSE (CHOOSE c \in finite :
              \A o \in finite : d(c) < d(o) \/ (d(c) = d(o) /\ c <= o)) - 1

\* the mean over points[0].length coordinates; point[i] is undefined past
\* the end of a shorter point
calculateCentroid(points) ==
  [i \in 1..Len(points[1]) |->
     IF \E p \in 1..Len(points) : Len(points[p]) < i \/ points[p][i] = NaN
       THEN NaN
       ELSE SumSeq([p \in 1..Len(points) |-> points[p][i]]) \div Len(points)]

\* if (dist > threshold) return false
checkConvergence(oldCentroids, newCentroids) ==
  \A i \in 1..Len(oldCentroids) :
    LET d == kmeansSquaredDistance(oldCentroids[i], newCentroids[i])
    IN  d = NaN \/ d <= ConvergenceThreshold * ConvergenceThreshold

\* clusters[i] of one iteration: the points from number p on that are
\* nearest to centroid i, in order
RECURSIVE clusterPoints(_, _, _, _)
clusterPoints(data, centroids, i, p) ==
  IF p > Len(data) THEN <<>>
  ELSE (IF findNearestCentroid(data[p], centroids) = i THEN <<data[p]>> ELSE <<>>)
       \o clusterPoints(data, centroids, i, p + 1)

\* newCentroids[i]: the mean of clusters[i], or this.centroids[i] when the
\* cluster is empty
newCentroid(points, previous) ==
  IF Len(points) > 0 THEN calculateCentroid(points) ELSE previous

\* newCentroids of one iteration, from cluster i on
RECURSIVE updateCentroids(_, _, _, _)
updateCentroids(data, centroids, k, i) ==
  IF i >= k THEN <<>>
  ELSE <<CHOOSE centroid \in {newCentroid(points, centroids[i + 1]) :
                                points \in {clusterPoints(data, centroids, i, 1)}} :
           TRUE>>
       \o updateCentroids(data, centroids, k, i + 1)

MaxKMeansPoints == 2
MaxKMeansK == 3

KMeansPoints == {<<0, 0>>, <<120, 0>>, <<6000, 0>>, <<0, 6000>>}

KMeansData ==
  UNION {[1..n -> KMeansPoints] : n \in 0..MaxKMeansPoints}

InitKMeans ==
  /\ pc = "start"
  /\ arg \in KMeansData
  /\ ret = <<>>
  /\ options = DEFAULT_OPTIONS
  /\ \E k \in 1..MaxKMeansK : kmeans = [k |-> k, centroids |-> <<>>]
  /\ knn = NewKNN(DEFAULT_OPTIONS.knnNeighbors)
  /\ decisionTree = NewDecisionTree
  /\ trainingData = JArr(<<>>)
  /\ run = Idle
  /\ lastCall = NoCall

\* fit up to the first centroid: data[Math.floor(Math.random() * n)]
KMeansFitCall ==
  /\ pc = "start"
  /\ IF Len(arg) = 0
       THEN pc' = "done" /\ ret' = <<>> /\ run' = run
       ELSE /\ pc' = "fit"
            /\ ret' = ret
            /\ \E first \in 1..Len(arg) :
                 run' = [stage |-> "seeding", centroids |-> <<arg[first]>>]
  /\ UNCHANGED <<arg, options, kmeans, knn, decisionTree, trainingData, lastCall>>

\* one pass of the while loop of initializeCentroids
KMeansSeedPass ==
  /\ pc = "fit"
  /\ run.stage = "seeding"
  /\ Len(run.centroids) < kmeans.k
  /\ \E random \in randomTimes(seedDistances(arg, run.centroids)) :
       run' = [run EXCEPT !.centroids = seedPass(arg, run.centroids, random)]
  /\ UNCHANGED <<pc, arg, ret, options, kmeans, knn, decisionTree, trainingData,
                 lastCall>>

\* return centroids; this.centroids = ...; iterations = 0; converged = false
KMeansSeeded ==
  /\ pc = "fit"
  /\ run.stage = "seeding"
  /\ Len(run.centroids) >= kmeans.k
  /\ kmeans' = [kmeans EXCEPT !.centroids = run.centroids]
  /\ run' = [stage |-> "lloyd", iterations |-> 0, converged |-> FALSE]
  /\ UNCHANGED <<pc, arg, ret, options, knn, decisionTree, trainingData, lastCall>>

\* one pass of while (!converged && iterations < this.maxIterations)
KMeansIterate ==
  /\ pc = "fit"
  /\ run.stage = "lloyd"
  /\ ~run.converged
  /\ run.iterations < maxIterations
  /\ \E newCentroids \in {updateCentroids(arg, kmeans.centroids, kmeans.k, 0)} :
       /\ kmeans' = [kmeans EXCEPT !.centroids = newCentroids]
       /\ run' = [stage |-> "lloyd", iterations |-> run.iterations + 1,
                  converged |-> checkConvergence(kmeans.centroids, newCentroids)]
  /\ UNCHANGED <<pc, arg, ret, options, knn, decisionTree, trainingData, lastCall>>

\* return this.centroids
KMeansReturn ==
  /\ pc = "fit"
  /\ run.stage = "lloyd"
  /\ ~(~run.converged /\ run.iterations < maxIterations)
  /\ pc' = "done"
  /\ ret' = kmeans.centroids
  /\ run' = Idle
  /\ UNCHANGED <<arg, options, kmeans, knn, decisionTree, trainingData, lastCall>>

NextKMeans ==
  \/ KMeansFitCall
  \/ KMeansSeedPass
  \/ KMeansSeeded
  \/ KMeansIterate
  \/ KMeansReturn

SpecKMeans == InitKMeans /\ [][NextKMeans]_vars

\* fit is synchronous code: a step that can run does run
SpecKMeansLive == SpecKMeans /\ WF_vars(NextKMeans)

\* the points of data that are nearer to centroid c than to any centroid
\* before it and as near as to any after it
AssignedTo(data, centroids, c) ==
  {p \in 1..Len(data) :
     /\ \A o \in 1..(c - 1) :
          squaredDistance(data[p], centroids[c]) < squaredDistance(data[p], centroids[o])
     /\ \A o \in (c + 1)..Len(centroids) :
          squaredDistance(data[p], centroids[c]) <= squaredDistance(data[p], centroids[o])}

MovedWithinThreshold(old, new) ==
  squaredDistance(old, new) <= ConvergenceThreshold * ConvergenceThreshold

\* seeding never holds more than k centroids and hands k of them to the
\* Lloyd loop, which never counts more than 100 iterations; a fit of
\* non-empty data returns k centroids
KMeansCounts ==
  /\ (pc = "fit" /\ run.stage = "seeding") =>
       (Len(run.centroids) >= 1 /\ Len(run.centroids) <= kmeans.k)
  /\ (pc = "fit" /\ run.stage = "lloyd") =>
       (Len(kmeans.centroids) = kmeans.k /\ run.iterations <= maxIterations)
  /\ (pc = "done" /\ Len(arg) > 0) => Len(ret) = kmeans.k

\* a step of the Lloyd loop is taken only while not converged, counts one
\* iteration, leaves the centroid of a cluster without points as it was and
\* sets converged exactly when no centroid moved more than the threshold;
\* fit returns only once converged or after 100 iterations
KMeansLloydStep ==
  /\ (pc = "fit" /\ run.stage = "lloyd" /\ run'.stage = "lloyd") =>
       /\ ~run.converged
       /\ run'.iterations = run.iterations + 1
       /\ \A c \in 1..kmeans.k :
            AssignedTo(arg, kmeans.centroids, c) = {}
              => kmeans'.centroids[c] = kmeans.centroids[c]
       /\ run'.converged <=>
            \A c \in 1..kmeans.k :
              MovedWithinThreshold(kmeans.centroids[c], kmeans'.centroids[c])
  /\ (pc = "fit" /\ pc' = "done") =>
       (run.converged \/ run.iterations = maxIterations)

MaxTreeChain == 10

ChainLabel(labels, i) ==
  IF labels = "alternating" THEN (IF i % 2 = 1 THEN "A" ELSE "B")
  ELSE IF labels = "same" THEN "A"
  ELSE ""

TreeChain(n, labels, flat, blank) ==
  [i \in 1..n |-> [features |-> <<IF flat THEN 2 ELSE 2 * i>>,
                   label |-> IF i = blank THEN "" ELSE ChainLabel(labels, i)]]

TreeChains ==
  {TreeChain(n, labels, flat, blank) :
     n \in 1..MaxTreeChain, labels \in {"alternating", "same", "empty"},
     flat \in BOOLEAN, blank \in 0..MaxTreeChain}

InitTreeChain ==
  /\ pc = "ready"
  /\ arg \in TreeChains
  /\ ret = None
  /\ EngineConstructed

SpecTreeChain == InitTreeChain /\ [][NextTree]_vars

\* the largest number of internal nodes on a path from node to a leaf
RECURSIVE InternalOnPath(_)
InternalOnPath(node) ==
  IF node.type = "leaf" THEN 0
  ELSE 1 + Max2(InternalOnPath(node.left), InternalOnPath(node.right))

LeftOf(data, node) ==
  SelectSeq(data, LAMBDA d : At(d.features, node.featureIndex) <= node.threshold)

RightOf(data, node) ==
  SelectSeq(data, LAMBDA d : At(d.features, node.featureIndex) > node.threshold)

\* the split findBestSplit returns for data leaves one side without a sample
BestSplitOneSided(data) ==
  \/ Len(LeftOf(data, findBestSplit(data))) = 0
  \/ Len(RightOf(data, findBestSplit(data))) = 0

AllShareOneLabel(data) == Cardinality({data[i].label : i \in 1..Len(data)}) = 1

LabelledShareOneLabel(data) ==
  Cardinality({data[i].label : i \in 1..Len(data)} \ {""}) = 1

\* node, built at depth from data, is a leaf exactly when pure, depth >= 5,
\* Len(data) < 5 or the best split is one-sided; an internal node gives
\* each child a sample; and so for the children on their samples
RECURSIVE BuiltAsClaimed(_, _, _, _)
BuiltAsClaimed(node, data, depth, labelledOnly) ==
  LET pure == IF labelledOnly THEN LabelledShareOneLabel(data)
                              ELSE AllShareOneLabel(data)
      leaf == \/ pure
              \/ depth >= 5
              \/ Len(data) < 5
              \/ BestSplitOneSided(data)
  IN  /\ (node.type = "leaf") <=> leaf
      /\ node.type = "internal" =>
           /\ Len(LeftOf(data, node)) >= 1
           /\ Len(RightOf(data, node)) >= 1
           /\ BuiltAsClaimed(node.left, LeftOf(data, node), depth + 1, labelledOnly)
           /\ BuiltAsClaimed(node.right, RightOf(data, node), depth + 1, labelledOnly)

ShapeCanvasWidth == 14
ShapeCanvasHeight == 7

ShapeImage(ox, oy, w, h, hollow, second) ==
  ImageData(ShapeCanvasWidth, ShapeCanvasHeight,
    [p \in 1..(ShapeCanvasWidth * ShapeCanvasHeight) |->
       LET x == (p - 1) % ShapeCanvasWidth
           y == (p - 1) \div ShapeCanvasWidth
           inFirst == x >= ox /\ x < ox + w /\ y >= oy /\ y < oy + h
           onEdge == x = ox \/ x = ox + w - 1 \/ y = oy \/ y = oy + h - 1
           inSecond == /\ second # "none"
                       /\ x >= ShapeCanvasWidth - 5
                       /\ y >= 1
                       /\ y < (IF second = "block" THEN 6 ELSE 3)
       IN  IF (inFirst /\ (~hollow \/ onEdge)) \/ inSecond
             THEN Gray(0) ELSE Gray(255)])

ShapeImages ==
  {ShapeImage(ox, oy, w, h, hollow, second) :
     ox \in 0..(ShapeCanvasWidth - 12), oy \in 0..(ShapeCanvasHeight - 6),
     w \in 4..6, h \in 4..6, hollow \in BOOLEAN,
     second \in {"none", "block", "bar"}}

InitShapes ==
  /\ pc = "ready"
  /\ arg \in ShapeImages
  /\ ret = None
  /\ EngineConstructed

\* ret keeps the returned chars, the local finalLabels and whether
\* charCanvas.getContext('2d') gave a context
ConnectedComponentSurfaceCall ==
  /\ pc = "ready"
  /\ \E ctxOk \in BOOLEAN :
       ret' = [chars |-> connectedComponentAnalysis(arg, ctxOk),
               finalLabels |-> ccaFinalLabels(ccaLabels(binarize(arg, DefaultThreshold))),
               ctxOk |-> ctxOk]
  /\ pc' = "done"
  /\ UNCHANGED <<arg, engineVars>>

NextShapes == ConnectedComponentSurfaceCall

SpecShapes == InitShapes /\ [][NextShapes]_vars

FinalLabelSet(finalLabels) == {finalLabels[i] : i \in 1..Len(finalLabels)} \ {-1}

\* the columns and the rows that hold a pixel of label
LabelColumns(finalLabels, width, label) ==
  {(i - 1) % width : i \in {j \in 1..Len(finalLabels) : finalLabels[j] = label}}

LabelRows(finalLabels, width, label) ==
  {(i - 1) \div width : i \in {j \in 1..Len(finalLabels) : finalLabels[j] = label}}

\* segment is the tight box of label: it holds every pixel of the label and
\* its four sides each touch one
IsTightBoxOf(segment, finalLabels, width, label) ==
  LET xs == LabelColumns(finalLabels, width, label)
      ys == LabelRows(finalLabels, width, label)
  IN  /\ segment.x \in xs /\ segment.x + segment.width - 1 \in xs
      /\ segment.y \in ys /\ segment.y + segment.height - 1 \in ys
      /\ \A x \in xs : segment.x <= x /\ x < segment.x + segment.width
      /\ \A y \in ys : segment.y <= y /\ y < segment.y + segment.height

SegmentsInsideBuffer(chars, buffer) ==
  \A k \in 1..Len(chars) :
    /\ chars[k].x >= 0 /\ chars[k].y >= 0
    /\ chars[k].width >= 5 /\ chars[k].height >= 5
    /\ chars[k].x + chars[k].width <= buffer.width
    /\ chars[k].y + chars[k].height <= buffer.height

\* the segments are the tight boxes of the final labels that are kept, one
\* each, where kept(label) says which labels are
SegmentsOfKeptLabels(chars, finalLabels, width, kept(_)) ==
  /\ \A k \in 1..Len(chars) :
       \E label \in FinalLabelSet(finalLabels) :
         kept(label) /\ IsTightBoxOf(chars[k], finalLabels, width, label)
  /\ \A label \in FinalLabelSet(finalLabels) :
       kept(label) <=>
         Cardinality({k \in 1..Len(chars) :
                        IsTightBoxOf(chars[k], finalLabels, width, label)}) = 1

SpansFive(finalLabels, width, label) ==
  /\ \E a, b \in LabelColumns(finalLabels, width, label) : b - a >= 4
  /\ \E a, b \in LabelRows(finalLabels, width, label) : b - a >= 4

C24_ReanchoredInsideOriginal ==
  pc = "done" =>
    /\ ret.pushed.bbox.x >= arg.baseResult.bbox.x
    /\ ret.pushed.bbox.y >= arg.baseResult.bbox.y
    /\ ret.pushed.bbox.x + ret.pushed.bbox.width
         <= arg.baseResult.bbox.x + arg.baseResult.bbox.width
    /\ ret.pushed.bbox.y + ret.pushed.bbox.height
         <= arg.baseResult.bbox.y + arg.baseResult.bbox.height

(***************************************************************************)
(* KMeans.fit as applyMachineLearning calls it: k is the smaller of        *)
(* kMeansClusters and the number of vectors, and the vectors are as long   *)
(* as the boxes of their candidates make them, not all the same.           *)
(***************************************************************************)
MixedPoints == {<<0>>, <<120>>, <<0, 0>>, <<6000, 0>>, <<0, 6000, 0>>}

MixedData ==
  UNION {[1..n -> MixedPoints] : n \in 1..(MaxKMeansPoints + 1)}

InitKMeansMixed ==
  /\ pc = "start"
  /\ arg \in MixedData
  /\ ret = <<>>
  /\ options = DEFAULT_OPTIONS
  /\ kmeans = [k |-> Min2(options.kMeansClusters, Len(arg)), centroids |-> <<>>]
  /\ knn = NewKNN(DEFAULT_OPTIONS.knnNeighbors)
  /\ decisionTree = NewDecisionTree
  /\ trainingData = JArr(<<>>)
  /\ run = Idle
  /\ lastCall = NoCall

SpecKMeansMixed == InitKMeansMixed /\ [][NextKMeans]_vars

SpecKMeansMixedLive == SpecKMeansMixed /\ WF_vars(NextKMeans)

\* every pass of the seeding loop, whatever Math.random gives, adds a centroid
SeedPassAddsCentroid ==
  (pc = "fit" /\ run.stage = "seeding" /\ Len(run.centroids) < kmeans.k) =>
    \A random \in randomTimes(seedDistances(arg, run.centroids)) :
      Len(seedPass(arg, run.centroids, random)) = Len(run.centroids) + 1

\* C25: the k-means of the machine-learning step (seeding, Lloyd iteration)
\* comes to its end for every non-empty list of feature vectors, also of
\* different lengths, and every pass of the seeding loop adds a centroid.
C25_LearningTerminates ==
  /\ []SeedPassAddsCentroid
  /\ <>(pc = "done")

(***************************************************************************)
(* The reading-order sort on its own.  contextBasedCorrection,             *)
(* CharacterClassifier.sortByPosition and ClipboardManager's               *)
(* sortByReadingOrder pass the same comparator to sort on a copy.          *)
(***************************************************************************)
MaxReadingItems == 3

ReadingBoxes == {Box(x, y, 5, 5) : x \in {0, 5, 10}, y \in {0, 15, 30}}

InitReading ==
  /\ pc = "start"
  /\ arg \in UNION {[1..n -> [bbox : ReadingBoxes]] : n \in 1..MaxReadingItems}
  /\ ret = <<>>
  /\ EngineConstructed

\* [...results].sort(comparator): the sorted copy
ReadingSortCall ==
  /\ pc = "start"
  /\ pc' = "done"
  /\ ret' = [k \in 1..Len(arg) |-> arg[readingSort(arg, Len(arg))[k]]]
  /\ UNCHANGED <<arg, engineVars>>

NextReading == ReadingSortCall

SpecReading == InitReading /\ [][NextReading]_vars

Permuted(items, f) == [k \in 1..Len(items) |-> items[f[k]]]

SortedCopy(items) == [k \in 1..Len(items) |-> items[readingSort(items, Len(items))[k]]]

ComparatorTransitive(items) ==
  \A i, j, k \in 1..Len(items) :
    (readingOrder(items[i], items[j]) < 0 /\ readingOrder(items[j], items[k]) < 0)
      => readingOrder(items[i], items[k]) < 0

\* no two of the items compare as equal
NoTies(items) ==
  \A i, j \in 1..Len(items) : i # j => readingOrder(items[i], items[j]) # 0

\* C26: the reading-order comparison is transitive, and the sorted order of
\* boxes no two of which compare as equal is the same in whatever order
\* they are supplied.
C26_ReadingOrderConsistent ==
  pc = "done" =>
    /\ ComparatorTransitive(arg)
    /\ NoTies(arg) =>
         \A f \in Permutations(1..Len(arg)) : SortedCopy(Permuted(arg, f)) = ret

\* three boxes 15 pixels apart in y and 5 in x, each left of the one above:
\* the comparison runs in a circle
C26_Cycle ==
  /\ pc = "done"
  /\ Len(arg) = 3
  /\ readingOrder(arg[1], arg[2]) < 0
  /\ readingOrder(arg[2], arg[3]) < 0
  /\ readingOrder(arg[3], arg[1]) < 0
  /\ SortedCopy(Permuted(arg, <<2, 3, 1>>)) # ret

\* C27: after any sequence of addTrainingSample, addTrainingSamples,
\* clearTrainingData and importTrainingData calls the training data is a
\* list of samples, each a numeric feature list with a string label; an
\* import of JSON that is not such a list leaves the data as it was, and so
\* does an import of the data's own export.
C27_TrainingDataStaysSampleList ==
  /\ IsSampleList(trainingData)
  /\ lastCall.op = "importTrainingData" =>
       /\ (JsonParse(lastCall.data).ok
             /\ ~IsSampleList(JsonParse(lastCall.data).value))
            => trainingData = lastCall.before
       /\ (IsSampleList(lastCall.before)
             /\ lastCall.data = stringify(lastCall.before))
            => trainingData = lastCall.before

(***************************************************************************)
(* HistoryManager (src/utils/historyManager.ts): the undo and redo stacks  *)
(* of the editor.  In the specifications below `run` is the manager        *)
(* singleton, `arg` the state of the caller, `ret` the value the last      *)
(* call returned, `pc` the clock read by Date.now() with the number of     *)
(* calls made, and `lastCall` what the caller observed.                    *)
(***************************************************************************)
maxHistorySize == 50

learnerVars == <<options, kmeans, knn, decisionTree, trainingData>>

LearnersConstructed ==
  /\ options = DEFAULT_OPTIONS
  /\ kmeans = NewKMeans(DEFAULT_OPTIONS.kMeansClusters)
  /\ knn = NewKNN(DEFAULT_OPTIONS.knnNeighbors)
  /\ decisionTree = NewDecisionTree
  /\ trainingData = JArr(<<>>)

\* CharacterItem, as far as the history and the rotation read it
CharacterItem(id, bbox) == [id |-> id, bbox |-> bbox]

\* JSON.parse(JSON.stringify(characters)): a new list of new objects
deepCopy(characters) ==
  [i \in 1..Len(characters) |->
     [id |-> characters[i].id,
      bbox |-> [x |-> characters[i].bbox.x, y |-> characters[i].bbox.y,
                width |-> characters[i].bbox.width,
                height |-> characters[i].bbox.height]]]

HistoryState(characters, rotation, timestamp) ==
  [characters |-> deepCopy(characters), rotation |-> rotation,
   timestamp |-> timestamp]

NewHistoryManager ==
  [undoStack |-> <<>>, redoStack |-> <<>>, currentState |-> JNull]

\* initState(characters, rotation)
initState(history, characters, rotation, now) ==
  [history EXCEPT !.currentState = HistoryState(characters, rotation, now)]

overflowsLate(undoStack) == Len(undoStack) > maxHistorySize + 1

\* this.undoStack.length > this.maxHistorySize
overflows(undoStack) == Len(undoStack) > maxHistorySize

\* execute(type, description, prevCharacters, nextCharacters, rotation):
\* the one rotation goes into prevState and into nextState
execute(history, type, prevCharacters, nextCharacters, rotation, now) ==
  LET prevState == HistoryState(prevCharacters, rotation, now)
      nextState == HistoryState(nextCharacters, rotation, now)
      operation == [type |-> type, prevState |-> prevState,
                    nextState |-> nextState, timestamp |-> now]
      pushed == Append(history.undoStack, operation)
  IN  [undoStack |-> IF overflows(pushed) THEN Tail(pushed) ELSE pushed,
       redoStack |-> <<>>,
       currentState |-> nextState]

\* undo(): the manager after the call and the value returned
undo(history) ==
  IF Len(history.undoStack) = 0
  THEN [history |-> history, returned |-> JNull]
  ELSE LET operation == history.undoStack[Len(history.undoStack)]
       IN  [history |->
              [undoStack |-> SubSeq(history.undoStack, 1,
                                    Len(history.undoStack) - 1),
               redoStack |-> Append(history.redoStack, operation),
               currentState |-> operation.prevState],
            returned |-> operation.prevState]

\* redo()
redo(history) ==
  IF Len(history.redoStack) = 0
  THEN [history |-> history, returned |-> JNull]
  ELSE LET operation == history.redoStack[Len(history.redoStack)]
       IN  [history |->
              [undoStack |-> Append(history.undoStack, operation),
               redoStack |-> SubSeq(history.redoStack, 1,
                                    Len(history.redoStack) - 1),
               currentState |-> operation.nextState],
            returned |-> operation.nextState]

\* clear()
clear(history) == NewHistoryManager

\* rotateCharacter(char, angle, imageWidth, imageHeight)
rotateCharacter(char, angle, imageWidth, imageHeight) ==
  LET b == char.bbox
  IN  [char EXCEPT !.bbox =
         CASE angle = 90 ->
                [x |-> b.y, y |-> imageWidth - b.x - b.width,
                 width |-> b.height, height |-> b.width]
           [] angle = 180 ->
                [x |-> imageWidth - b.x - b.width,
                 y |-> imageHeight - b.y - b.height,
                 width |-> b.width, height |-> b.height]
           [] angle = 270 ->
                [x |-> imageHeight - b.y - b.height, y |-> b.x,
                 width |-> b.height, height |-> b.width]
           [] OTHER -> [x |-> b.x, y |-> b.y, width |-> b.width,
                        height |-> b.height]]

\* rotateCharacters(characters, angle, imageWidth, imageHeight)
rotateCharacters(characters, angle, imageWidth, imageHeight) ==
  [i \in 1..Len(characters) |->
     rotateCharacter(characters[i], angle, imageWidth, imageHeight)]

(***************************************************************************)
(* The editor (App): its characters and rotation state, the handlers that  *)
(* record an operation, and undo and redo.  The image has been selected    *)
(* and loaded: handleFileSelect has reset the characters and the rotation  *)
(* and has called initState([], 0).                                        *)
(***************************************************************************)
MaxEditorCalls == 5

MaxEditorCharacters == 2

EditorImageWidth == 4

EditorImageHeight == 3

\* the characters a segmentation or a drawn box adds
NewCharacters == {<<CharacterItem(1, Box(0, 0, 1, 2))>>}

\* what a handler leaves of the editor for the user to see
EditorView(editor) ==
  [characters |-> editor.characters, rotation |-> editor.rotation]

\* the last three handlers that ran
observed(calls, call) ==
  IF Len(calls) < 3 THEN Append(calls, call) ELSE Append(Tail(calls), call)

InitEditor ==
  /\ pc = [now |-> 1, calls |-> 0]
  /\ arg = [characters |-> <<>>, rotation |-> 0, loading |-> <<>>]
  /\ ret = JNull
  /\ run = initState(NewHistoryManager, <<>>, 0, 0)
  /\ lastCall = <<>>
  /\ LearnersConstructed

\* handleAddCharacters(newChars)
HandleAddCharacters ==
  /\ pc.calls < MaxEditorCalls
  /\ Len(arg.characters) < MaxEditorCharacters
  /\ \E newChars \in NewCharacters :
       LET prevChars == arg.characters
           nextChars == arg.characters \o newChars
       IN  /\ run' = execute(run, "batch_add", prevChars, nextChars,
                             arg.rotation, pc.now)
           /\ arg' = [arg EXCEPT !.characters = nextChars]
           /\ lastCall' = observed(lastCall,
                [op |-> "add", before |-> EditorView(arg),
                 after |-> EditorView(arg')])
  /\ pc' = [now |-> pc.now + 1, calls |-> pc.calls + 1]
  /\ UNCHANGED <<ret, learnerVars>>

\* handleRotate(), up to img.src = ...: the closure of img.onload keeps the
\* characters and the new rotation of this render
HandleRotate ==
  /\ pc.calls < MaxEditorCalls
  /\ arg.loading = <<>>
  /\ arg' = [arg EXCEPT !.loading =
               <<[characters |-> arg.characters,
                  newRotation |-> (arg.rotation + 90) % 360]>>]
  /\ pc' = [now |-> pc.now + 1, calls |-> pc.calls + 1]
  /\ UNCHANGED <<ret, run, lastCall, learnerVars>>

\* img.onload of handleRotate
RotateOnload ==
  /\ arg.loading # <<>>
  /\ LET prevCharacters == arg.loading[1].characters
         rotatedChars == rotateCharacters(arg.loading[1].characters, 90,
                                          EditorImageWidth, EditorImageHeight)
     IN  /\ arg' = [characters |-> rotatedChars,
                    rotation |-> arg.loading[1].newRotation,
                    loading |-> <<>>]
         /\ run' = execute(run, "rotate_image", prevCharacters, rotatedChars,
                           arg.loading[1].newRotation, pc.now)
         /\ lastCall' = observed(lastCall,
              [op |-> "rotate", before |-> EditorView(arg),
               after |-> EditorView(arg'), rendered |-> prevCharacters])
  /\ pc' = [pc EXCEPT !.now = @ + 1]
  /\ UNCHANGED <<ret, learnerVars>>

\* setCharacters(state.characters); setRotation(state.rotation), if (state)
shown(editor, state) ==
  IF state = JNull THEN editor
  ELSE [editor EXCEPT !.characters = state.characters,
                      !.rotation = state.rotation]

\* handleUndo()
HandleUndo ==
  /\ pc.calls < MaxEditorCalls
  /\ run' = undo(run).history
  /\ ret' = undo(run).returned
  /\ arg' = shown(arg, undo(run).returned)
  /\ lastCall' = observed(lastCall,
       [op |-> "undo", before |-> EditorView(arg), after |-> EditorView(arg')])
  /\ pc' = [now |-> pc.now + 1, calls |-> pc.calls + 1]
  /\ UNCHANGED learnerVars

\* handleRedo()
HandleRedo ==
  /\ pc.calls < MaxEditorCalls
  /\ run' = redo(run).history
  /\ ret' = redo(run).returned
  /\ arg' = shown(arg, redo(run).returned)
  /\ lastCall' = observed(lastCall,
       [op |-> "redo", before |-> EditorView(arg), after |-> EditorView(arg')])
  /\ pc' = [now |-> pc.now + 1, calls |-> pc.calls + 1]
  /\ UNCHANGED learnerVars

NextEditor ==
  \/ HandleAddCharacters
  \/ HandleRotate
  \/ RotateOnload
  \/ HandleUndo
  \/ HandleRedo

SpecEditor == InitEditor /\ [][NextEditor]_vars

\* the last handlers were a rotation and, right after it, an undo that
\* took an operation from the stack
RotatedThenUndone(calls, n) ==
  /\ n >= 2
  /\ calls[n - 1].op = "rotate"
  /\ calls[n].op = "undo"

\* C28: undoing a rotation restores the characters and the rotation angle
\* that were current before the rotation, and a redo right after the undo
\* restores those the rotation had produced.
C28_UndoRestoresRotation ==
  /\ RotatedThenUndone(lastCall, Len(lastCall))
       => lastCall[Len(lastCall)].after = lastCall[Len(lastCall) - 1].before
  /\ (/\ Len(lastCall) = 3
      /\ RotatedThenUndone(lastCall, 2)
      /\ lastCall[3].op = "redo")
       => lastCall[3].after = lastCall[1].after

\* the part of C28 about the character boxes alone, for a rotation whose
\* image loaded before the characters changed
C28_UndoRestoresCharacters ==
  (/\ RotatedThenUndone(lastCall, Len(lastCall))
   /\ lastCall[Len(lastCall) - 1].rendered
        = lastCall[Len(lastCall) - 1].before.characters)
    => lastCall[Len(lastCall)].after.characters
         = lastCall[Len(lastCall) - 1].before.characters

(***************************************************************************)
(* HistoryManager alone, called with execute, undo, redo and clear in any  *)
(* order.  The calls start from a new manager or from one that execute     *)
(* has filled to one below its limit.                                      *)
(***************************************************************************)
MaxHistoryCalls == 5

RECURSIVE executedTimes(_)
\* a new manager after n calls of execute, made at times 1..n
executedTimes(n) ==
  IF n = 0 THEN NewHistoryManager
  ELSE execute(executedTimes(n - 1), "batch_add", <<>>, <<>>, 0, n)

HistoryStarts == {0, maxHistorySize - 1}

\* the character lists execute is called with
HistoryCharacters == {<<>>, <<CharacterItem(1, Box(0, 0, 1, 2))>>}

InitHistory ==
  /\ \E n \in HistoryStarts :
       /\ run = executedTimes(n)
       /\ pc = [now |-> n + 1, calls |-> 0]
  /\ arg = <<>>
  /\ ret = JNull
  /\ lastCall = NoCall
  /\ LearnersConstructed

\* execute(type, description, prevCharacters, nextCharacters, rotation)
HistoryExecute ==
  /\ pc.calls < MaxHistoryCalls
  /\ \E nextCharacters \in HistoryCharacters :
       /\ arg' = <<"batch_add", <<>>, nextCharacters, 0>>
       /\ run' = execute(run, "batch_add", <<>>, nextCharacters, 0, pc.now)
  /\ lastCall' = [op |-> "execute"]
  /\ pc' = [now |-> pc.now + 1, calls |-> pc.calls + 1]
  /\ UNCHANGED <<ret, learnerVars>>

\* undo()
HistoryUndo ==
  /\ pc.calls < MaxHistoryCalls
  /\ run' = undo(run).history
  /\ ret' = undo(run).returned
  /\ lastCall' = [op |-> "undo"]
  /\ pc' = [now |-> pc.now + 1, calls |-> pc.calls + 1]
  /\ UNCHANGED <<arg, learnerVars>>

\* redo()
HistoryRedo ==
  /\ pc.calls < MaxHistoryCalls
  /\ run' = redo(run).history
  /\ ret' = redo(run).returned
  /\ lastCall' = [op |-> "redo"]
  /\ pc' = [now |-> pc.now + 1, calls |-> pc.calls + 1]
  /\ UNCHANGED <<arg, learnerVars>>

\* clear()
HistoryClear ==
  /\ pc.calls < MaxHistoryCalls
  /\ run' = clear(run)
  /\ lastCall' = [op |-> "clear"]
  /\ pc' = [now |-> pc.now + 1, calls |-> pc.calls + 1]
  /\ UNCHANGED <<arg, ret, learnerVars>>

NextHistory ==
  \/ HistoryExecute
  \/ HistoryUndo
  \/ HistoryRedo
  \/ HistoryClear

SpecHistory == InitHistory /\ [][NextHistory]_vars

Top(stack) == stack[Len(stack)]

Below(stack) == SubSeq(stack, 1, Len(stack) - 1)

\* `from` lost its top operation and `to` received it on top
MovedOne(from, to, fromAfter, toAfter) ==
  /\ fromAfter = Below(from)
  /\ toAfter = Append(to, Top(from))

\* execute pushed one operation, dropped the oldest one of a full stack and
\* no other, and emptied the redo stack
ExecutedStep ==
  /\ run'.redoStack = <<>>
  /\ Top(run'.undoStack).timestamp = pc.now
  /\ Below(run'.undoStack) =
       IF Len(run.undoStack) = maxHistorySize
       THEN Tail(run.undoStack) ELSE run.undoStack

UndoneStep ==
  IF run.undoStack = <<>>
  THEN ret' = JNull /\ run' = run
  ELSE /\ MovedOne(run.undoStack, run.redoStack,
                   run'.undoStack, run'.redoStack)
       /\ ret' = Top(run.undoStack).prevState

RedoneStep ==
  IF run.redoStack = <<>>
  THEN ret' = JNull /\ run' = run
  ELSE /\ MovedOne(run.redoStack, run.undoStack,
                   run'.redoStack, run'.undoStack)
       /\ ret' = Top(run.redoStack).nextState

HistoryStep ==
  /\ Len(run'.undoStack) <= maxHistorySize
  /\ lastCall'.op = "execute" => ExecutedStep
  /\ lastCall'.op = "undo" => UndoneStep
  /\ lastCall'.op = "redo" => RedoneStep

\* C29: across execute, undo, redo and clear the undo stack never holds
\* more than 50 operations, the oldest being dropped on overflow; execute
\* empties the redo stack; undo moves exactly one operation from the undo
\* stack to the redo stack and redo moves it back; undo on an empty undo
\* stack and redo on an empty redo stack return null and change nothing.
C29_HistoryStacks == [][HistoryStep]_vars

\* an execute on a full stack has dropped the oldest operation, and an undo
\* after it has moved the newest one to the redo stack
C29_Witness ==
  /\ lastCall.op = "undo"
  /\ Len(run.undoStack) = maxHistorySize - 1
  /\ run.undoStack[1].timestamp = 2
  /\ Len(run.redoStack) = 1
  /\ run.redoStack[1].timestamp = maxHistorySize + 1

(***************************************************************************)
(* OCREngine.initialize and terminate (part_001), called concurrently.    *)
(* `run` is the engine, arg[i] the position and the result of the i-th     *)
(* initialize call, `pc` the position of the terminate call and `lastCall` *)
(* what the callers and the worker factory have observed.  Each await is   *)
(* a step boundary; between two awaits a call runs alone.                  *)
(***************************************************************************)
MaxInitializeCalls == 3

InitializeCalls == 1..MaxInitializeCalls

NoWorker == 0

NotCalled == [at |-> "idle", found |-> 0, sawInitialized |-> FALSE,
              result |-> "none"]

NewOCREngine ==
  [isInitialized |-> FALSE, isInitializing |-> FALSE, worker |-> NoWorker,
   initializer |-> 0]

InitOcrEngine ==
  /\ run = NewOCREngine
  /\ arg = [i \in InitializeCalls |-> NotCalled]
  /\ pc = "idle"
  /\ ret = JNull
  /\ lastCall = [created |-> 0, creators |-> {}, terminated |-> 0,
                 outcome |-> [i \in InitializeCalls |-> "none"]]
  /\ LearnersConstructed

waitsNever(engine) == FALSE

\* if (this.isInitializing)
mustWait(engine) == engine.isInitializing

\* initialize(), from its call to its first await or return
InitializeCall(i) ==
  /\ arg[i].at = "idle"
  /\ IF run.isInitialized
     THEN /\ arg' = [arg EXCEPT ![i] = [@ EXCEPT !.at = "returned",
                                           !.sawInitialized = TRUE,
                                           !.result = "true"]]
          /\ run' = run
     ELSE IF mustWait(run)
     THEN /\ arg' = [arg EXCEPT ![i] = [@ EXCEPT !.at = "waiting",
                                           !.found = run.initializer]]
          /\ run' = run
     ELSE /\ arg' = [arg EXCEPT ![i] = [@ EXCEPT !.at = "loading"]]
          /\ run' = [run EXCEPT !.isInitializing = TRUE, !.initializer = i]
  /\ UNCHANGED <<pc, ret, lastCall, learnerVars>>

\* the setTimeout of the waiting loop fires and isInitializing is false:
\* return this.isInitialized  (a poll that finds it true changes nothing)
InitializeWaitOver(i) ==
  /\ arg[i].at = "waiting"
  /\ ~run.isInitializing
  /\ arg' = [arg EXCEPT ![i] =
               [@ EXCEPT !.at = "returned",
                         !.result = IF run.isInitialized THEN "true"
                                    ELSE "false"]]
  /\ UNCHANGED <<pc, ret, run, lastCall, learnerVars>>

\* await loadTesseract() resolves
TesseractLoaded(i) ==
  /\ arg[i].at = "loading"
  /\ arg' = [arg EXCEPT ![i] = [@ EXCEPT !.at = "creating"]]
  /\ UNCHANGED <<pc, ret, run, lastCall, learnerVars>>

\* await this.Tesseract.createWorker(...) resolves
WorkerCreated(i) ==
  /\ arg[i].at = "creating"
  /\ run' = [run EXCEPT !.worker = i, !.isInitialized = TRUE,
                        !.isInitializing = FALSE]
  /\ arg' = [arg EXCEPT ![i] = [@ EXCEPT !.at = "returned",
                                        !.result = "true"]]
  /\ lastCall' = [lastCall EXCEPT !.created = @ + 1,
                                  !.creators = @ \cup {i},
                                  !.outcome[i] = "success"]
  /\ UNCHANGED <<pc, ret, learnerVars>>

\* loadTesseract() or createWorker() rejects: the catch block
InitializeFailed(i) ==
  /\ arg[i].at \in {"loading", "creating"}
  /\ run' = [run EXCEPT !.isInitializing = FALSE, !.isInitialized = FALSE]
  /\ arg' = [arg EXCEPT ![i] = [@ EXCEPT !.at = "threw"]]
  /\ lastCall' = [lastCall EXCEPT !.outcome[i] = "failure"]
  /\ UNCHANGED <<pc, ret, learnerVars>>

\* terminate(), up to await this.worker.terminate()
TerminateCall ==
  /\ pc = "idle"
  /\ pc' = IF run.worker # NoWorker THEN "terminating" ELSE "returned"
  /\ lastCall' = IF run.worker # NoWorker
                 THEN [lastCall EXCEPT !.terminated = @ + 1]
                 ELSE lastCall
  /\ UNCHANGED <<arg, ret, run, learnerVars>>

\* terminate(), after the await
TerminateDone ==
  /\ pc = "terminating"
  /\ pc' = "returned"
  /\ run' = [run EXCEPT !.worker = NoWorker, !.isInitialized = FALSE]
  /\ UNCHANGED <<arg, ret, lastCall, learnerVars>>

NextOcrEngine ==
  \/ \E i \in InitializeCalls : InitializeCall(i)
  \/ \E i \in InitializeCalls : InitializeWaitOver(i)
  \/ \E i \in InitializeCalls : TesseractLoaded(i)
  \/ \E i \in InitializeCalls : WorkerCreated(i)
  \/ \E i \in InitializeCalls : InitializeFailed(i)
  \/ TerminateCall
  \/ TerminateDone

SpecOcrEngine == InitOcrEngine /\ [][NextOcrEngine]_vars

\* call i found an initialization in progress and has returned
WaitedAndReturned(i) == arg[i].found # 0 /\ arg[i].at = "returned"

\* no worker.terminate() has been called
NoneTerminated == lastCall.terminated = 0

OneWorkerAtMost == lastCall.created <= 1

WaitersCreateNothing ==
  \A i \in InitializeCalls : arg[i].found # 0 => i \notin lastCall.creators

LaterCallsReturnTrue ==
  \A i \in InitializeCalls :
    arg[i].sawInitialized
      => arg[i].result = "true" /\ i \notin lastCall.creators

\* C30 as stated: while no worker has been terminated at most one worker is
\* created, a call that found an initialization in progress creates none
\* and returns the outcome of that initialization, true for its success
\* and false for its failure, and a call after a success returns true
\* without creating a worker.
C30_WaiterReturnsOutcomeWaitedFor ==
  NoneTerminated =>
    /\ OneWorkerAtMost
    /\ WaitersCreateNothing
    /\ LaterCallsReturnTrue
    /\ \A i \in InitializeCalls :
         WaitedAndReturned(i) =>
           /\ lastCall.outcome[arg[i].found] = "success"
                => arg[i].result = "true"
           /\ lastCall.outcome[arg[i].found] = "failure"
                => arg[i].result = "false"

\* what holds of the calls that have returned while no worker has been
\* terminated
InitializeOutcomes ==
  NoneTerminated =>
    /\ OneWorkerAtMost
    /\ WaitersCreateNothing
    /\ LaterCallsReturnTrue
    /\ \A i \in InitializeCalls :
         WaitedAndReturned(i) =>
           /\ lastCall.outcome[arg[i].found] # "none"
           /\ lastCall.outcome[arg[i].found] = "success"
                => arg[i].result = "true"
           /\ arg[i].result = "false"
                => lastCall.outcome[arg[i].found] = "failure"

\* a waiting call returns: true exactly when a worker has been created
WaiterReturnStep ==
  \A i \in InitializeCalls :
    (NoneTerminated /\ arg[i].at = "waiting" /\ arg'[i].at = "returned")
      => (arg'[i].result = "true" <=> lastCall.created = 1)

\* C30, amended: the waiting call returns true exactly when an
\* initialization has succeeded by the time it finds none in progress, that
\* of the call it waited for or of a later one; when it returns false the
\* initialization it waited for has failed.
C30_WaiterReturnsWhetherInitialized ==
  [][InitializeOutcomes' /\ WaiterReturnStep]_vars

\* a call waited for an initialization that failed and returned true,
\* because a third call had created the worker before its poll
C30_Witness ==
  /\ NoneTerminated
  /\ \E i \in InitializeCalls :
       /\ WaitedAndReturned(i)
       /\ arg[i].result = "true"
       /\ lastCall.outcome[arg[i].found] = "failure"
       /\ lastCall.created = 1

====
